---- MODULE Spec2Model ----
(***************************************************************************)
(* Model of the tuizlet learn session (src/bin/tuizlet.js, the learn       *)
(* command) and of the text matcher it calls                               *)
(* (src/src/services/quiz-loader.ts, matchAnswer).                         *)
(*                                                                         *)
(* A JavaScript string is modelled as a sequence of characters, each a     *)
(* TLA+ string naming one UTF-16 code unit, so that length, slicing,       *)
(* concatenation, lexicographic comparison and the per-character           *)
(* conversions are computed as the code computes them.                     *)
(***************************************************************************)
EXTENDS Integers, Sequences, FiniteSets, TLC

(***************************************************************************)
(* Bounds of the model.                                                    *)
(***************************************************************************)
\* longest typed answer the model lets the user build
MaxTyped == 2

\* the largest counter value the summary is computed for
MaxCount == 23

\* the most accepted answers matchAnswer is called with
MaxAnswers == 2

\* the longest string levenshteinDistance is called with
MaxLen == 3

(***************************************************************************)
(* Characters and strings.                                                 *)
(***************************************************************************)
\* U+00E1, a with acute accent, as one character
AAcute == "U+00E1"

\* U+0301, the combining mark the NFD form of U+00E1 contains
CombiningAcute == "U+0301"

Letters == <<"a","b","c","d","e","f","g","h","i","j","k","l","m",
             "n","o","p","q","r","s","t","u","v","w","x","y","z">>

Digits == <<"0","1","2","3","4","5","6","7","8","9">>

\* the UTF-16 code unit of a character, which JavaScript's <, <=, >=, >
\* on strings and charCodeAt compare
CharCode(c) ==
  IF \E i \in 1..Len(Letters) : Letters[i] = c
    THEN 96 + (CHOOSE i \in 1..Len(Letters) : Letters[i] = c)
  ELSE IF \E i \in 1..Len(Digits) : Digits[i] = c
    THEN 47 + (CHOOSE i \in 1..Len(Digits) : Digits[i] = c)
  ELSE IF c = "A" THEN 65
  ELSE IF c = " " THEN 32
  ELSE IF c = "\"" THEN 34
  ELSE IF c = "?" THEN 63
  ELSE IF c = "W" THEN 87
  ELSE IF c = AAcute THEN 225
  ELSE IF c = CombiningAcute THEN 769
  ELSE 0

\* s <= t for JavaScript strings: lexicographic on code units, a proper
\* prefix being smaller
RECURSIVE StrLE(_, _)
StrLE(s, t) ==
  IF s = <<>> THEN TRUE
  ELSE IF t = <<>> THEN FALSE
  ELSE IF CharCode(Head(s)) < CharCode(Head(t)) THEN TRUE
  ELSE IF CharCode(Head(s)) > CharCode(Head(t)) THEN FALSE
  ELSE StrLE(Tail(s), Tail(t))

\* String.prototype.toLowerCase on one character
LowerChar(c) == IF c = "A" THEN "a" ELSE c

toLowerCase(s) == [i \in 1..Len(s) |-> LowerChar(s[i])]

\* the characters the regular expression class \s and trim() treat as blank
IsWhiteSpace(c) == c = " "

RECURSIVE trimStart(_)
trimStart(s) ==
  IF s # <<>> /\ IsWhiteSpace(Head(s)) THEN trimStart(Tail(s)) ELSE s

RECURSIVE trimEnd(_)
trimEnd(s) ==
  IF s # <<>> /\ IsWhiteSpace(s[Len(s)])
    THEN trimEnd(SubSeq(s, 1, Len(s) - 1))
    ELSE s

\* String.prototype.trim
trim(s) == trimEnd(trimStart(s))

\* s.replace(/\s+/g, " ")
RECURSIVE collapseWhitespace(_)
collapseWhitespace(s) ==
  IF s = <<>> THEN <<>>
  ELSE IF IsWhiteSpace(Head(s))
    THEN <<" ">> \o collapseWhitespace(trimStart(Tail(s)))
    ELSE <<Head(s)>> \o collapseWhitespace(Tail(s))

\* canonical decomposition of one character
Decompose(c) == IF c = AAcute THEN <<"a", CombiningAcute>> ELSE <<c>>

\* s.normalize("NFD")
RECURSIVE normalizeNFD(_)
normalizeNFD(s) ==
  IF s = <<>> THEN <<>> ELSE Decompose(Head(s)) \o normalizeNFD(Tail(s))

\* the class [\u0300-\u036f]
IsCombiningMark(c) == CharCode(c) >= 768 /\ CharCode(c) <= 879

\* s.replace(/[\u0300-\u036f]/g, "")
stripCombining(s) == SelectSeq(s, LAMBDA c : ~IsCombiningMark(c))

\* parseInt on a string: the value of its leading decimal digits
\* (0 stands for NaN, which no caller of the model reaches)
RECURSIVE parseIntFrom(_, _)
parseIntFrom(s, acc) ==
  IF s # <<>> /\ CharCode(Head(s)) >= 48 /\ CharCode(Head(s)) <= 57
    THEN parseIntFrom(Tail(s), 10 * acc + (CharCode(Head(s)) - 48))
    ELSE acc

parseInt(s) == parseIntFrom(s, 0)

(***************************************************************************)
(* The text matcher.                                                       *)
(***************************************************************************)
normalizeText(text, ignoreAccents) ==
  LET lowered   == toLowerCase(trim(text))
      collapsed == collapseWhitespace(lowered)
  IN  IF ignoreAccents THEN stripCombining(normalizeNFD(collapsed))
                       ELSE collapsed

Min3(x, y, z) ==
  IF x <= y /\ x <= z THEN x ELSE IF y <= z THEN y ELSE z

\* row i of the matrix, filled left to right from row i-1; a row is the
\* sequence of its cells, cell j at position j+1
RECURSIVE levenshteinRow(_, _, _, _, _)
levenshteinRow(prev, row, i, a, b) ==
  LET j == Len(row)
  IN  IF j > Len(a) THEN row
      ELSE levenshteinRow(prev,
             Append(row,
               IF b[i] = a[j]
                 THEN prev[j]
                 ELSE Min3(prev[j] + 1, row[j] + 1, prev[j + 1] + 1)),
             i, a, b)

RECURSIVE levenshteinRows(_, _, _, _)
levenshteinRows(prev, i, a, b) ==
  IF i > Len(b) THEN prev[Len(a) + 1]
  ELSE levenshteinRows(levenshteinRow(prev, <<i>>, i, a, b), i + 1, a, b)

\* levenshteinDistance with a first row of zeros
levenshteinDistance_ZeroFirstRow(a, b) ==
  levenshteinRows([j \in 1..(Len(a) + 1) |-> 0], 1, a, b)

levenshteinDistance(a, b) ==
  levenshteinRows([j \in 1..(Len(a) + 1) |-> j - 1], 1, a, b)

\* the distance of the initial bestMatch
Infinity == 1000000

\* the value of an absent matchedAnswer
Undefined == <<"undefined">>

RECURSIVE matchLoop(_, _, _, _, _, _)
matchLoop(k, bestMatch, normalizedInput, correctAnswers, options, ignoreCase) ==
  IF k > Len(correctAnswers) THEN bestMatch
  ELSE
    LET answer == correctAnswers[k]
        normalizedAnswer ==
          IF ignoreCase THEN normalizeText(answer, options.ignoreAccents)
                        ELSE trim(answer)
        distance == levenshteinDistance(normalizedInput, normalizedAnswer)
    IN  IF normalizedInput = normalizedAnswer
          THEN [isCorrect |-> TRUE, isExact |-> TRUE, distance |-> 0,
                matchedAnswer |-> answer]
        ELSE IF distance < bestMatch.distance
          THEN matchLoop(k + 1,
                 [isCorrect |-> distance <= options.allowTypoDistance,
                  isExact |-> FALSE,
                  distance |-> distance,
                  matchedAnswer |->
                    IF distance <= options.allowTypoDistance
                      THEN answer ELSE Undefined],
                 normalizedInput, correctAnswers, options, ignoreCase)
        ELSE matchLoop(k + 1, bestMatch, normalizedInput, correctAnswers,
                       options, ignoreCase)

\* matchAnswer comparing the input with the first accepted answer only
matchAnswer_FirstAnswerOnly(userInput, correctAnswers, options) ==
  LET normalizedInput ==
        IF options.ignoreCase
          THEN normalizeText(userInput, options.ignoreAccents)
          ELSE trim(userInput)
  IN  matchLoop(1,
        [isCorrect |-> FALSE, isExact |-> FALSE, distance |-> Infinity,
         matchedAnswer |-> Undefined],
        normalizedInput, SubSeq(correctAnswers, 1, 1), options,
        options.ignoreCase)

\* matchAnswer accepting only distances below allowTypoDistance
matchAnswer_StrictTolerance(userInput, correctAnswers, options) ==
  LET normalizedInput ==
        IF options.ignoreCase
          THEN normalizeText(userInput, options.ignoreAccents)
          ELSE trim(userInput)
  IN  matchLoop(1,
        [isCorrect |-> FALSE, isExact |-> FALSE, distance |-> Infinity,
         matchedAnswer |-> Undefined],
        normalizedInput, correctAnswers,
        [options EXCEPT !.allowTypoDistance = @ - 1], options.ignoreCase)

\* matchAnswer reporting every accepted input as an exact match
matchAnswer_ExactWhenCorrect(userInput, correctAnswers, options) ==
  LET normalizedInput ==
        IF options.ignoreCase
          THEN normalizeText(userInput, options.ignoreAccents)
          ELSE trim(userInput)
      best == matchLoop(1,
                [isCorrect |-> FALSE, isExact |-> FALSE,
                 distance |-> Infinity, matchedAnswer |-> Undefined],
                normalizedInput, correctAnswers, options, options.ignoreCase)
  IN  [best EXCEPT !.isExact = best.isCorrect]

\* matchAnswer naming the first accepted answer when nothing matched
matchAnswer_AlwaysNamesAnswer(userInput, correctAnswers, options) ==
  LET normalizedInput ==
        IF options.ignoreCase
          THEN normalizeText(userInput, options.ignoreAccents)
          ELSE trim(userInput)
      best == matchLoop(1,
                [isCorrect |-> FALSE, isExact |-> FALSE,
                 distance |-> Infinity, matchedAnswer |-> Undefined],
                normalizedInput, correctAnswers, options, options.ignoreCase)
  IN  IF best.matchedAnswer = Undefined
        THEN [best EXCEPT !.matchedAnswer = correctAnswers[1]]
        ELSE best

\* matchAnswer going through the accepted answers from the last to the
\* first
matchAnswer_LastToFirst(userInput, correctAnswers, options) ==
  LET normalizedInput ==
        IF options.ignoreCase
          THEN normalizeText(userInput, options.ignoreAccents)
          ELSE trim(userInput)
      n == Len(correctAnswers)
  IN  matchLoop(1,
        [isCorrect |-> FALSE, isExact |-> FALSE, distance |-> Infinity,
         matchedAnswer |-> Undefined],
        normalizedInput, [i \in 1..n |-> correctAnswers[n + 1 - i]], options,
        options.ignoreCase)

matchAnswer(userInput, correctAnswers, options) ==
  LET normalizedInput ==
        IF options.ignoreCase
          THEN normalizeText(userInput, options.ignoreAccents)
          ELSE trim(userInput)
  IN  matchLoop(1,
        [isCorrect |-> FALSE, isExact |-> FALSE, distance |-> Infinity,
         matchedAnswer |-> Undefined],
        normalizedInput, correctAnswers, options, options.ignoreCase)

(***************************************************************************)
(* Question generation.                                                    *)
(***************************************************************************)
LearnModes == {"multiple-choice", "type-answer", "mixed"}

\* every result of the Fisher-Yates shuffle: each permutation of the array
\* is produced by some sequence of Math.random() values
shuffle(array) ==
  LET n == Len(array)
  IN  {[i \in 1..n |-> array[f[i]]] :
         f \in {g \in [1..n -> 1..n] :
                  \A i, j \in 1..n : i # j => g[i] # g[j]}}

Min2(x, y) == IF x <= y THEN x ELSE y

\* the template literal `What is "${text}"?`
promptFor(text) ==
  <<"W","h","a","t"," ","i","s"," ","\"">> \o text \o <<"\"","?">>

\* createQuestion marking the back text correct in either direction
createQuestion_CorrectIsBack(card, allCards, direction, mode) ==
  LET prompt == IF direction = "front-to-back"
                  THEN promptFor(card.front.text)
                  ELSE promptFor(card.back.text)
      correctAnswer == IF direction = "front-to-back"
                         THEN card.back.text ELSE card.front.text
      alternatives == IF direction = "front-to-back"
                        THEN card.back.alternatives ELSE <<>>
      correctAnswers == <<correctAnswer>> \o alternatives
      question == [card |-> card, prompt |-> prompt,
                   correctAnswers |-> correctAnswers,
                   direction |-> direction, mode |-> mode,
                   options |-> <<>>]
      otherCards == SelectSeq(allCards, LAMBDA c : c.id # card.id)
      wrongCardsSet == {SubSeq(p, 1, Min2(3, Len(otherCards))) :
                          p \in shuffle(otherCards)}
      wrongAnswers(wrongCards) ==
        [i \in 1..Len(wrongCards) |->
           IF direction = "front-to-back"
             THEN wrongCards[i].back.text ELSE wrongCards[i].front.text]
      optionsOf(wrongCards) ==
        <<[text |-> card.back.text, isCorrect |-> TRUE]>> \o
        [i \in 1..Len(wrongCards) |->
           [text |-> wrongAnswers(wrongCards)[i], isCorrect |-> FALSE]]
  IN  IF mode = "multiple-choice"
        THEN {[question EXCEPT !.options = opts] :
                opts \in UNION {shuffle(optionsOf(w)) : w \in wrongCardsSet}}
        ELSE {question}

\* createQuestion accepting the alternatives of the back in either
\* direction
createQuestion_AlternativesBothWays(card, allCards, direction, mode) ==
  LET prompt == IF direction = "front-to-back"
                  THEN promptFor(card.front.text)
                  ELSE promptFor(card.back.text)
      correctAnswer == IF direction = "front-to-back"
                         THEN card.back.text ELSE card.front.text
      alternatives == card.back.alternatives
      correctAnswers == <<correctAnswer>> \o alternatives
      question == [card |-> card, prompt |-> prompt,
                   correctAnswers |-> correctAnswers,
                   direction |-> direction, mode |-> mode,
                   options |-> <<>>]
      otherCards == SelectSeq(allCards, LAMBDA c : c.id # card.id)
      wrongCardsSet == {SubSeq(p, 1, Min2(3, Len(otherCards))) :
                          p \in shuffle(otherCards)}
      wrongAnswers(wrongCards) ==
        [i \in 1..Len(wrongCards) |->
           IF direction = "front-to-back"
             THEN wrongCards[i].back.text ELSE wrongCards[i].front.text]
      optionsOf(wrongCards) ==
        <<[text |-> correctAnswer, isCorrect |-> TRUE]>> \o
        [i \in 1..Len(wrongCards) |->
           [text |-> wrongAnswers(wrongCards)[i], isCorrect |-> FALSE]]
  IN  IF mode = "multiple-choice"
        THEN {[question EXCEPT !.options = opts] :
                opts \in UNION {shuffle(optionsOf(w)) : w \in wrongCardsSet}}
        ELSE {question}

\* every question createQuestion can return; the random option ids, which
\* nothing reads, are left out of the option records, and the absent
\* options of a type-answer question are the empty list (the handlers read
\* them as options?.length ?? 0)
createQuestion(card, allCards, direction, mode) ==
  LET prompt == IF direction = "front-to-back"
                  THEN promptFor(card.front.text)
                  ELSE promptFor(card.back.text)
      correctAnswer == IF direction = "front-to-back"
                         THEN card.back.text ELSE card.front.text
      alternatives == IF direction = "front-to-back"
                        THEN card.back.alternatives ELSE <<>>
      correctAnswers == <<correctAnswer>> \o alternatives
      question == [card |-> card, prompt |-> prompt,
                   correctAnswers |-> correctAnswers,
                   direction |-> direction, mode |-> mode,
                   options |-> <<>>]
      otherCards == SelectSeq(allCards, LAMBDA c : c.id # card.id)
      wrongCardsSet == {SubSeq(p, 1, Min2(3, Len(otherCards))) :
                          p \in shuffle(otherCards)}
      wrongAnswers(wrongCards) ==
        [i \in 1..Len(wrongCards) |->
           IF direction = "front-to-back"
             THEN wrongCards[i].back.text ELSE wrongCards[i].front.text]
      optionsOf(wrongCards) ==
        <<[text |-> correctAnswer, isCorrect |-> TRUE]>> \o
        [i \in 1..Len(wrongCards) |->
           [text |-> wrongAnswers(wrongCards)[i], isCorrect |-> FALSE]]
  IN  IF mode = "multiple-choice"
        THEN {[question EXCEPT !.options = opts] :
                opts \in UNION {shuffle(optionsOf(w)) : w \in wrongCardsSet}}
        ELSE {question}

\* the modes Math.random() < 0.5 can give one question
questionModes(mode) ==
  IF mode = "mixed" THEN {"multiple-choice", "type-answer"} ELSE {mode}

\* the questions pushed for shuffledCards[i..], in push order
RECURSIVE questionsFrom(_, _, _)
questionsFrom(shuffledCards, i, mode) ==
  IF i > Len(shuffledCards) THEN {<<>>}
  ELSE {<<f, b>> \o rest :
          f \in UNION {createQuestion(shuffledCards[i], shuffledCards,
                                      "front-to-back", m) :
                         m \in questionModes(mode)},
          b \in UNION {createQuestion(shuffledCards[i], shuffledCards,
                                      "back-to-front", m) :
                         m \in questionModes(mode)},
          rest \in questionsFrom(shuffledCards, i + 1, mode)}

generateQuestions(cards, mode) ==
  UNION {shuffle(questions) :
           questions \in UNION {questionsFrom(shuffledCards, 1, mode) :
                                  shuffledCards \in shuffle(cards)}}

\* array.slice(0, end)
slice(array, end) ==
  IF end >= 0 THEN SubSeq(array, 1, Min2(end, Len(array)))
  ELSE SubSeq(array, 1, IF Len(array) + end > 0 THEN Len(array) + end ELSE 0)

\* every question generateQuestion of the multiple-choice generator can
\* return, the random option ids left out
generateQuestion(targetCard, allCards, direction, numOptions) ==
  LET prompt == IF direction = "front-to-back"
                  THEN promptFor(targetCard.front.text)
                  ELSE promptFor(targetCard.back.text)
      correctAnswer == IF direction = "front-to-back"
                         THEN targetCard.back.text ELSE targetCard.front.text
      otherCards == SelectSeq(allCards, LAMBDA c : c.id # targetCard.id)
      wrongCardsSet == {slice(p, numOptions - 1) : p \in shuffle(otherCards)}
      wrongAnswers(wrongCards) ==
        [i \in 1..Len(wrongCards) |->
           IF direction = "front-to-back"
             THEN wrongCards[i].back.text ELSE wrongCards[i].front.text]
      optionsOf(wrongCards) ==
        <<[text |-> correctAnswer, isCorrect |-> TRUE]>> \o
        [i \in 1..Len(wrongCards) |->
           [text |-> wrongAnswers(wrongCards)[i], isCorrect |-> FALSE]]
  IN  {[question |-> [type |-> "multiple-choice",
                      cardId |-> targetCard.id,
                      prompt |-> prompt,
                      options |-> shuffledOptions,
                      allowMultiple |-> FALSE],
        card |-> targetCard,
        direction |-> direction] :
         shuffledOptions \in
           UNION {shuffle(optionsOf(w)) : w \in wrongCardsSet}}

\* the questions pushed for cardList[i..], in push order
RECURSIVE generatedFrom(_, _, _)
generatedFrom(cardList, i, options) ==
  IF i > Len(cardList) THEN {<<>>}
  ELSE {pushed \o rest :
          pushed \in
            IF options.bidirectional
              THEN {<<f, b>> :
                      f \in generateQuestion(cardList[i], cardList,
                              "front-to-back", options.numOptions),
                      b \in generateQuestion(cardList[i], cardList,
                              "back-to-front", options.numOptions)}
              ELSE {<<f>> :
                      f \in generateQuestion(cardList[i], cardList,
                              "front-to-back", options.numOptions)},
          rest \in generatedFrom(cardList, i + 1, options)}

\* generateMultipleChoiceQuestionsFromCards pushing the back-to-front
\* question whatever options.bidirectional is
generateMultipleChoiceQuestionsFromCards_AlwaysBoth(cards, options) ==
  LET cardLists == IF options.shuffle THEN shuffle(cards) ELSE {cards}
      pushed == UNION {generatedFrom(cardList, 1,
                                     [options EXCEPT !.bidirectional = TRUE]) :
                         cardList \in cardLists}
  IN  IF options.shuffle THEN UNION {shuffle(questions) : questions \in pushed}
      ELSE pushed

\* every list generateMultipleChoiceQuestionsFromCards can return
generateMultipleChoiceQuestionsFromCards(cards, options) ==
  LET cardLists == IF options.shuffle THEN shuffle(cards) ELSE {cards}
      pushed == UNION {generatedFrom(cardList, 1, options) :
                         cardList \in cardLists}
  IN  IF options.shuffle THEN UNION {shuffle(questions) : questions \in pushed}
      ELSE pushed

\* getCorrectOption: the first option marked correct, Undefined if none
getCorrectOption(question) ==
  LET marked == {i \in 1..Len(question.options) :
                   question.options[i].isCorrect}
  IN  IF marked = {} THEN Undefined
      ELSE question.options[CHOOSE i \in marked : \A j \in marked : i <= j]

(***************************************************************************)
(* Key events.                                                             *)
(***************************************************************************)
KeyUp        == <<"u","p">>
KeyDown      == <<"d","o","w","n">>
KeyReturn    == <<"r","e","t","u","r","n">>
KeyEnter     == <<"e","n","t","e","r">>
KeyBackspace == <<"b","a","c","k","s","p","a","c","e">>
KeySpace     == <<"s","p","a","c","e">>
KeyTab       == <<"t","a","b">>

\* the key names the model delivers without a modifier
KeyNames ==
  {<<"2">>, <<"a">>, <<"b">>, <<"A">>, <<AAcute>>, <<" ">>,
   KeyUp, KeyDown, KeyReturn, KeyEnter, KeyBackspace, KeySpace, KeyTab}

\* the KeyEvent values the model delivers: name, ctrl, meta
Events ==
  {[name |-> n, ctrl |-> FALSE, meta |-> FALSE] : n \in KeyNames}
  \cup {[name |-> n, ctrl |-> TRUE, meta |-> FALSE] :
          n \in {<<"1">>, <<"4">>, <<"5">>, <<"d">>}}
  \cup {[name |-> <<"a">>, ctrl |-> FALSE, meta |-> TRUE]}

\* the value of the event variable before any key press
NoEvent == [name |-> <<>>, ctrl |-> FALSE, meta |-> FALSE]

(***************************************************************************)
(* The cards of the modelled quizzes.                                      *)
(***************************************************************************)
Card1 ==
  [id |-> "c1",
   front |-> [text |-> <<AAcute>>],
   back |-> [text |-> <<"a","b">>,
             alternatives |-> << <<"b"," "," ","a">> >>],
   matchConfig |-> [ignoreCase |-> FALSE, ignoreAccents |-> FALSE,
                    allowTypoDistance |-> 0]]

Card2 ==
  [id |-> "c2",
   front |-> [text |-> <<"b","b">>],
   back |-> [text |-> <<"A"," ","5">>, alternatives |-> <<>>],
   matchConfig |-> [ignoreCase |-> TRUE, ignoreAccents |-> TRUE,
                    allowTypoDistance |-> 3]]

Card3 ==
  [id |-> "c3",
   front |-> [text |-> <<"b">>],
   back |-> [text |-> <<"a"," ","b">>, alternatives |-> <<>>],
   matchConfig |-> [ignoreCase |-> TRUE, ignoreAccents |-> FALSE,
                    allowTypoDistance |-> 1]]

\* a card with the back text of Card1
Card4 ==
  [id |-> "c4",
   front |-> [text |-> <<"A">>],
   back |-> [text |-> <<"a","b">>, alternatives |-> <<>>],
   matchConfig |-> [ignoreCase |-> TRUE, ignoreAccents |-> FALSE,
                    allowTypoDistance |-> 1]]

Card5 ==
  [id |-> "c5",
   front |-> [text |-> <<"2">>],
   back |-> [text |-> <<"b","b","b">>, alternatives |-> <<>>],
   matchConfig |-> [ignoreCase |-> TRUE, ignoreAccents |-> FALSE,
                    allowTypoDistance |-> 1]]

\* the inputs of the modelled sessions: the card list (allCards) and the
\* mode selectLearnMode resolved to
SessionInputs ==
  {<<cards, mode>> : cards \in {<<Card1>>}, mode \in LearnModes}
  \cup {<<cards, mode>> : cards \in {<<Card1, Card2>>},
                          mode \in {"multiple-choice", "type-answer"}}

\* question lists in push order: both shuffles of generateQuestions left
\* the order as it was.  The session reads questions[currentIndex] only,
\* so the order of the list is not explored further.
InPushOrder(questions, cards) ==
  \A i \in 1..Len(cards) :
    /\ questions[2 * i - 1].card = cards[i]
    /\ questions[2 * i - 1].direction = "front-to-back"
    /\ questions[2 * i].card = cards[i]
    /\ questions[2 * i].direction = "back-to-front"

SessionQuestions ==
  UNION {{qs \in generateQuestions(in[1], in[2]) : InPushOrder(qs, in[1])} :
           in \in SessionInputs}

(***************************************************************************)
(* Numbers.  The counters are JavaScript numbers: correct / total and the  *)
(* product with 100 are IEEE-754 double operations, each rounding its      *)
(* exact result to 53 significant bits, to nearest, ties to even.  A       *)
(* positive double is [sig, exp]: sig its significant bits, first bit 1,   *)
(* most significant first, read as an integer, times 2^exp.  Long bit      *)
(* sequences are put together from limbs of 18 bits.                       *)
(***************************************************************************)
Precision == 53

LimbBits == 18

Zero == [sig |-> <<>>, exp |-> 0]

RECURSIVE pow2(_)
pow2(k) == IF k = 0 THEN 1 ELSE 2 * pow2(k - 1)

\* the w low bits of the natural number n, most significant first
bitsOf(n, w) == [j \in 1..w |-> (n \div pow2(w - j)) % 2]

\* the bits of the natural number n, most significant first, <<>> for 0
RECURSIVE toBits(_)
toBits(n) == IF n = 0 THEN <<>> ELSE Append(toBits(n \div 2), n % 2)

\* the natural number a bit sequence shorter than 31 stands for
RECURSIVE fromBits(_)
fromBits(bits) ==
  IF bits = <<>> THEN 0
  ELSE 2 * fromBits(SubSeq(bits, 1, Len(bits) - 1)) + bits[Len(bits)]

\* bits + 1, one bit longer when every bit is 1
increment(bits) ==
  LET zeros == {i \in 1..Len(bits) : bits[i] = 0}
      last == IF zeros = {} THEN 0
              ELSE CHOOSE i \in zeros : \A j \in zeros : j <= i
  IN  IF last = 0 THEN <<1>> \o [i \in 1..Len(bits) |-> 0]
      ELSE [i \in 1..Len(bits) |->
              IF i < last THEN bits[i] ELSE IF i = last THEN 1 ELSE 0]

\* the double nearest to bits * 2^exp, sticky telling that the exact value
\* is larger than bits * 2^exp by less than 2^exp
roundToDouble(bits, exp, sticky) ==
  IF Len(bits) <= Precision THEN [sig |-> bits, exp |-> exp]
  ELSE LET kept == SubSeq(bits, 1, Precision)
           dropped == Len(bits) - Precision
           half == bits[Precision + 1] = 1
           rest == sticky \/ \E i \in (Precision + 2)..Len(bits) : bits[i] = 1
           up == half /\ (rest \/ kept[Precision] = 1)
           sum == IF up THEN increment(kept) ELSE kept
       IN  IF Len(sum) > Precision
             THEN [sig |-> SubSeq(sum, 1, Precision),
                   exp |-> exp + dropped + 1]
             ELSE [sig |-> sum, exp |-> exp + dropped]

\* the least k with a * 2^k >= b
RECURSIVE shiftFor(_, _)
shiftFor(a, b) == IF a >= b THEN 0 ELSE 1 + shiftFor(2 * a, b)

\* a / b for integers 0 <= a <= b, 0 < b < 2^12: three limbs of the
\* quotient of a * 2^k by b, which lies in [1, 2), make its first 54 bits
divide(a, b) ==
  IF a = 0 THEN Zero
  ELSE LET k == shiftFor(a, b)
           n1 == a * pow2(k) * pow2(LimbBits - 1)
           n2 == (n1 % b) * pow2(LimbBits)
           n3 == (n2 % b) * pow2(LimbBits)
           bits == bitsOf(n1 \div b, LimbBits) \o bitsOf(n2 \div b, LimbBits)
                     \o bitsOf(n3 \div b, LimbBits)
       IN  roundToDouble(bits, 0 - k - Precision, n3 % b # 0)

\* x * m for a double x and a natural number 0 < m < 2^12, limb by limb
\* from the least significant one
multiply(x, m) ==
  IF x = Zero THEN Zero
  ELSE LET n == Len(x.sig)
           p3 == fromBits(SubSeq(x.sig, n - LimbBits + 1, n)) * m
           p2 == fromBits(SubSeq(x.sig, n - 2 * LimbBits + 1, n - LimbBits))
                   * m + p3 \div pow2(LimbBits)
           p1 == fromBits(SubSeq(x.sig, 1, n - 2 * LimbBits)) * m
                   + p2 \div pow2(LimbBits)
           bits == toBits(p1) \o bitsOf(p2 % pow2(LimbBits), LimbBits)
                     \o bitsOf(p3 % pow2(LimbBits), LimbBits)
       IN  roundToDouble(bits, x.exp, FALSE)

\* Math.round(x) for a double 0 <= x < 2^30: the integer nearest to x, a
\* fraction of one half rounding up
mathRound(x) ==
  IF x = Zero THEN 0
  ELSE LET n == Len(x.sig) + x.exp      \* bits before the binary point
       IN  IF n < 0 THEN 0
           ELSE IF n >= Len(x.sig)
             THEN fromBits(x.sig) * pow2(x.exp)
           ELSE fromBits(SubSeq(x.sig, 1, n)) + x.sig[n + 1]

(***************************************************************************)
(* The learn session.                                                      *)
(***************************************************************************)
VARIABLES
  state,         \* the LearnState object of runLearnCommand
  event,         \* the KeyEvent a key handler was last called with
  handlerOn,     \* handleKey of runLearnCommand is registered on the key
                 \* emitter
  graded,        \* graded[i]: counter increments made while question i-1
                 \* was current
  matcherCalls,  \* number of calls of matchAnswer
  pc,            \* where runLearnCommand stands
  loadedQuizzes, \* the quizzes runLearnCommand was called with
  selectedIndex, \* the cursor of selectLearnMode
  modeHandlerOn, \* handleKey of selectLearnMode is registered
  mode,          \* what selectLearnMode resolved to
  screen,        \* the boxes added to renderer.root since it was cleared
  menuHandlerOn, \* handleKey of showQuizMenu is registered
  menuIndex,     \* the cursor of showQuizMenu
  call,          \* the arguments of a function called on its own
  outcome        \* what that call returned

sessionVars == <<state, event, handlerOn, graded, matcherCalls>>

learnVars == <<pc, loadedQuizzes, selectedIndex, modeHandlerOn, mode, screen,
               menuHandlerOn, menuIndex>>

callVars == <<call, outcome>>

vars == <<state, event, handlerOn, graded, matcherCalls, pc, loadedQuizzes,
          selectedIndex, modeHandlerOn, mode, screen, menuHandlerOn,
          menuIndex, call, outcome>>

\* the state object runLearnCommand builds
initialState(questions) ==
  [questions |-> questions,
   currentIndex |-> 0,
   selectedOption |-> -1,
   typedAnswer |-> <<>>,
   answered |-> FALSE,
   correct |-> 0,
   incorrect |-> 0,
   showingResult |-> FALSE,
   lastAnswerCorrect |-> FALSE,
   correctAnswer |-> <<>>]

\* state.questions[state.currentIndex]
currentQuestionOf(st) == st.questions[st.currentIndex + 1]

\* selectOption with the else branch of the counter update lost: a wrong
\* option is shown as the result without being counted
selectOption_WrongNotCounted(st, optionIndex) ==
  LET currentQuestion == currentQuestionOf(st)
      numOptions == Len(currentQuestion.options)
  IN  IF optionIndex >= 0 /\ optionIndex < numOptions /\ ~st.answered
        THEN LET selectedOpt == currentQuestion.options[optionIndex + 1]
             IN  [st EXCEPT
                    !.selectedOption = optionIndex,
                    !.answered = TRUE,
                    !.lastAnswerCorrect = selectedOpt.isCorrect,
                    !.correctAnswer = currentQuestion.correctAnswers[1],
                    !.correct = IF selectedOpt.isCorrect THEN @ + 1 ELSE @,
                    !.showingResult = TRUE]
        ELSE st

\* the block of handleMultipleChoiceKey that finalizes option optionIndex
selectOption_AnsweredNotSet(st, optionIndex) ==
  LET currentQuestion == currentQuestionOf(st)
      numOptions == Len(currentQuestion.options)
  IN  IF optionIndex >= 0 /\ optionIndex < numOptions /\ ~st.answered
        THEN LET selectedOpt == currentQuestion.options[optionIndex + 1]
             IN  [st EXCEPT
                    !.selectedOption = optionIndex,
                    !.lastAnswerCorrect = selectedOpt.isCorrect,
                    !.correctAnswer = currentQuestion.correctAnswers[1],
                    !.correct = IF selectedOpt.isCorrect THEN @ + 1 ELSE @,
                    !.incorrect = IF selectedOpt.isCorrect THEN @ ELSE @ + 1,
                    !.showingResult = TRUE]
        ELSE st

selectOption(st, optionIndex) ==
  LET currentQuestion == currentQuestionOf(st)
      numOptions == Len(currentQuestion.options)
  IN  IF optionIndex >= 0 /\ optionIndex < numOptions /\ ~st.answered
        THEN LET selectedOpt == currentQuestion.options[optionIndex + 1]
             IN  [st EXCEPT
                    !.selectedOption = optionIndex,
                    !.answered = TRUE,
                    !.lastAnswerCorrect = selectedOpt.isCorrect,
                    !.correctAnswer = currentQuestion.correctAnswers[1],
                    !.correct = IF selectedOpt.isCorrect THEN @ + 1 ELSE @,
                    !.incorrect = IF selectedOpt.isCorrect THEN @ ELSE @ + 1,
                    !.showingResult = TRUE]
        ELSE st

\* handleMultipleChoiceKey confirming the first option when return is
\* pressed with none selected
handleMultipleChoiceKey_ConfirmDefaultsToFirst(st, e) ==
  LET keyName == toLowerCase(e.name)
      numOptions == Len(currentQuestionOf(st).options)
  IN  IF StrLE(<<"1">>, keyName) /\ StrLE(keyName, <<"4">>)
        THEN selectOption(st, parseInt(keyName) - 1)
      ELSE IF StrLE(<<"a">>, keyName) /\ StrLE(keyName, <<"d">>)
        THEN selectOption(st, CharCode(keyName[1]) - CharCode("a"))
      ELSE IF keyName = KeyUp
        THEN [st EXCEPT !.selectedOption =
                IF @ <= 0 THEN numOptions - 1 ELSE @ - 1]
      ELSE IF keyName = KeyDown
        THEN [st EXCEPT !.selectedOption =
                IF @ >= numOptions - 1 THEN 0 ELSE @ + 1]
      ELSE IF keyName = KeyReturn \/ keyName = KeyEnter
        THEN selectOption(st, IF st.selectedOption >= 0
                                THEN st.selectedOption ELSE 0)
      ELSE selectOption(st, -1)

\* handleMultipleChoiceKey taking the digit itself as the option index
handleMultipleChoiceKey_DigitIsIndex(st, e) ==
  LET keyName == toLowerCase(e.name)
      numOptions == Len(currentQuestionOf(st).options)
  IN  IF StrLE(<<"1">>, keyName) /\ StrLE(keyName, <<"4">>)
        THEN selectOption(st, parseInt(keyName))
      ELSE IF StrLE(<<"a">>, keyName) /\ StrLE(keyName, <<"d">>)
        THEN selectOption(st, CharCode(keyName[1]) - CharCode("a"))
      ELSE IF keyName = KeyUp
        THEN [st EXCEPT !.selectedOption =
                IF @ <= 0 THEN numOptions - 1 ELSE @ - 1]
      ELSE IF keyName = KeyDown
        THEN [st EXCEPT !.selectedOption =
                IF @ >= numOptions - 1 THEN 0 ELSE @ + 1]
      ELSE IF (keyName = KeyReturn \/ keyName = KeyEnter)
              /\ st.selectedOption >= 0
        THEN selectOption(st, st.selectedOption)
      ELSE selectOption(st, -1)

\* handleMultipleChoiceKey moving the cursor up without wrapping around
handleMultipleChoiceKey_UpWithoutWrap(st, e) ==
  LET keyName == toLowerCase(e.name)
      numOptions == Len(currentQuestionOf(st).options)
  IN  IF StrLE(<<"1">>, keyName) /\ StrLE(keyName, <<"4">>)
        THEN selectOption(st, parseInt(keyName) - 1)
      ELSE IF StrLE(<<"a">>, keyName) /\ StrLE(keyName, <<"d">>)
        THEN selectOption(st, CharCode(keyName[1]) - CharCode("a"))
      ELSE IF keyName = KeyUp
        THEN [st EXCEPT !.selectedOption = @ - 1]
      ELSE IF keyName = KeyDown
        THEN [st EXCEPT !.selectedOption =
                IF @ >= numOptions - 1 THEN 0 ELSE @ + 1]
      ELSE IF (keyName = KeyReturn \/ keyName = KeyEnter)
              /\ st.selectedOption >= 0
        THEN selectOption(st, st.selectedOption)
      ELSE selectOption(st, -1)

handleMultipleChoiceKey(st, e) ==
  LET keyName == toLowerCase(e.name)
      numOptions == Len(currentQuestionOf(st).options)
  IN  IF StrLE(<<"1">>, keyName) /\ StrLE(keyName, <<"4">>)
        THEN selectOption(st, parseInt(keyName) - 1)
      ELSE IF StrLE(<<"a">>, keyName) /\ StrLE(keyName, <<"d">>)
        THEN selectOption(st, CharCode(keyName[1]) - CharCode("a"))
      ELSE IF keyName = KeyUp
        THEN [st EXCEPT !.selectedOption =
                IF @ <= 0 THEN numOptions - 1 ELSE @ - 1]
      ELSE IF keyName = KeyDown
        THEN [st EXCEPT !.selectedOption =
                IF @ >= numOptions - 1 THEN 0 ELSE @ + 1]
      ELSE IF (keyName = KeyReturn \/ keyName = KeyEnter)
              /\ st.selectedOption >= 0
        THEN selectOption(st, st.selectedOption)
      ELSE selectOption(st, -1)

\* the options taken from the matchConfig of the question's card
sessionMatchOptions_FromCard(question) == question.card.matchConfig

\* the options object handleTypeAnswerKey passes to matchAnswer
sessionMatchOptions(question) ==
  [ignoreCase |-> TRUE, ignoreAccents |-> TRUE, allowTypoDistance |-> 1]

\* the submit test without trim(): a buffer of blanks is submitted
callsMatcher_NoTrim(st, e) ==
  LET keyName == toLowerCase(e.name)
  IN  /\ keyName # KeyBackspace
      /\ (keyName = KeyReturn \/ keyName = KeyEnter)
      /\ Len(st.typedAnswer) > 0

\* handleTypeAnswerKey reaches its call of matchAnswer
callsMatcher_NeverSubmits(st, e) ==
  LET keyName == toLowerCase(e.name)
  IN  /\ keyName # KeyBackspace
      /\ (keyName = KeyReturn \/ keyName = KeyEnter)
      /\ Len(trim(st.typedAnswer)) > MaxTyped

callsMatcher(st, e) ==
  LET keyName == toLowerCase(e.name)
  IN  /\ keyName # KeyBackspace
      /\ (keyName = KeyReturn \/ keyName = KeyEnter)
      /\ Len(trim(st.typedAnswer)) > 0

\* handleTypeAnswerKey appending the lowercased key name
handleTypeAnswerKey_AppendsKeyName(st, e) ==
  LET keyName == toLowerCase(e.name)
      currentQuestion == currentQuestionOf(st)
  IN  IF keyName = KeyBackspace
        THEN [st EXCEPT !.typedAnswer =
                IF Len(@) = 0 THEN @ ELSE SubSeq(@, 1, Len(@) - 1)]
      ELSE IF keyName = KeyReturn \/ keyName = KeyEnter
        THEN IF callsMatcher(st, e)
               THEN LET result == matchAnswer(st.typedAnswer,
                                    currentQuestion.correctAnswers,
                                    sessionMatchOptions(currentQuestion))
                    IN  [st EXCEPT
                           !.answered = TRUE,
                           !.lastAnswerCorrect = result.isCorrect,
                           !.correctAnswer = currentQuestion.correctAnswers[1],
                           !.correct = IF result.isCorrect THEN @ + 1 ELSE @,
                           !.incorrect = IF result.isCorrect THEN @ ELSE @ + 1,
                           !.showingResult = TRUE]
               ELSE st
      ELSE IF Len(e.name) = 1 /\ ~e.ctrl /\ ~e.meta
        THEN [st EXCEPT !.typedAnswer = @ \o keyName]
      ELSE IF keyName = KeySpace
        THEN [st EXCEPT !.typedAnswer = @ \o <<" ">>]
      ELSE st

handleTypeAnswerKey(st, e) ==
  LET keyName == toLowerCase(e.name)
      currentQuestion == currentQuestionOf(st)
  IN  IF keyName = KeyBackspace
        THEN [st EXCEPT !.typedAnswer =
                IF Len(@) = 0 THEN @ ELSE SubSeq(@, 1, Len(@) - 1)]
      ELSE IF keyName = KeyReturn \/ keyName = KeyEnter
        THEN IF callsMatcher(st, e)
               THEN LET result == matchAnswer(st.typedAnswer,
                                    currentQuestion.correctAnswers,
                                    sessionMatchOptions(currentQuestion))
                    IN  [st EXCEPT
                           !.answered = TRUE,
                           !.lastAnswerCorrect = result.isCorrect,
                           !.correctAnswer = currentQuestion.correctAnswers[1],
                           !.correct = IF result.isCorrect THEN @ + 1 ELSE @,
                           !.incorrect = IF result.isCorrect THEN @ ELSE @ + 1,
                           !.showingResult = TRUE]
               ELSE st
      ELSE IF Len(e.name) = 1 /\ ~e.ctrl /\ ~e.meta
        THEN [st EXCEPT !.typedAnswer = @ \o e.name]
      ELSE IF keyName = KeySpace
        THEN [st EXCEPT !.typedAnswer = @ \o <<" ">>]
      ELSE st

\* acknowledge advancing past the next question
acknowledge_SkipsQuestion(st) ==
  [st EXCEPT !.showingResult = FALSE,
             !.currentIndex = @ + 2,
             !.selectedOption = -1,
             !.typedAnswer = <<>>,
             !.answered = FALSE]

\* acknowledge leaving the typed answer in the buffer
acknowledge_KeepsTypedAnswer(st) ==
  [st EXCEPT !.showingResult = FALSE,
             !.currentIndex = @ + 1,
             !.selectedOption = -1,
             !.answered = FALSE]

\* the branch of handleKey taken while a result is shown
acknowledge_KeepsSelection(st) ==
  [st EXCEPT !.showingResult = FALSE,
             !.currentIndex = @ + 1,
             !.typedAnswer = <<>>,
             !.answered = FALSE]

acknowledge(st) ==
  [st EXCEPT !.showingResult = FALSE,
             !.currentIndex = @ + 1,
             !.selectedOption = -1,
             !.typedAnswer = <<>>,
             !.answered = FALSE]

\* handleKey acknowledging on return/enter only and passing every other
\* key to the handler of the question's mode
handleKey_OnlyReturnAcknowledges(st, e) ==
  IF st.currentIndex >= Len(st.questions) THEN st
  ELSE IF st.showingResult
          /\ toLowerCase(e.name) \in {KeyReturn, KeyEnter}
    THEN acknowledge(st)
  ELSE IF currentQuestionOf(st).mode = "multiple-choice"
    THEN handleMultipleChoiceKey(st, e)
    ELSE handleTypeAnswerKey(st, e)

\* the LearnState after handleKey(e)
handleKey(st, e) ==
  IF st.currentIndex >= Len(st.questions) THEN st
  ELSE IF st.showingResult THEN acknowledge(st)
  ELSE IF currentQuestionOf(st).mode = "multiple-choice"
    THEN handleMultipleChoiceKey(st, e)
    ELSE handleTypeAnswerKey(st, e)

\* the counter increments handleKey(e) makes, added to the current question
gradedAfter(st, e) ==
  LET after == handleKey(st, e)
      delta == (after.correct + after.incorrect) - (st.correct + st.incorrect)
  IN  IF delta = 0 THEN graded
      ELSE [graded EXCEPT ![st.currentIndex + 1] = @ + delta]

\* no session: runLearnCommand has not built its state object
NoState == [questions |-> <<>>, currentIndex |-> -1]

NoCall == [fn |-> "none"]

NoResult == [ready |-> FALSE]

\* the figures renderComplete shows
renderComplete(st) ==
  LET total == st.correct + st.incorrect
      percentage == IF total > 0
                      THEN mathRound(multiply(divide(st.correct, total), 100))
                      ELSE 0
  IN  [view |-> "complete", correct |-> st.correct,
       incorrect |-> st.incorrect, total |-> total,
       percentage |-> percentage]


\* the question screen of renderMultipleChoice and renderTypeAnswer
renderQuestion(st) ==
  [view |-> currentQuestionOf(st).mode,
   progress |-> <<st.currentIndex + 1, Len(st.questions)>>,
   showingResult |-> st.showingResult]

\* the screen after render: cleared, then one box added
render(st) ==
  IF st.currentIndex >= Len(st.questions)
    THEN <<renderComplete(st)>>
    ELSE <<renderQuestion(st)>>

Modes == <<"multiple-choice", "type-answer", "mixed">>

\* the position of a mode in the list of selectLearnMode
modeIndex(m) == CHOOSE i \in 1..Len(Modes) : Modes[i] = m

Init ==
  /\ \E in \in SessionInputs :
       /\ loadedQuizzes = <<[cards |-> in[1]]>>
       /\ mode = in[2]
       /\ state \in {initialState(qs) :
                       qs \in {q \in generateQuestions(in[1], in[2]) :
                                 InPushOrder(q, in[1])}}
  /\ event = NoEvent
  /\ handlerOn = TRUE
  /\ graded = [i \in 1..Len(state.questions) |-> 0]
  /\ matcherCalls = 0
  /\ pc = "session"
  /\ selectedIndex = modeIndex(mode) - 1
  /\ modeHandlerOn = FALSE
  /\ menuHandlerOn = FALSE
  /\ menuIndex = 0
  /\ screen = render(state)
  /\ call = NoCall
  /\ outcome = NoResult

\* handleKey once the session is complete: the handler removes itself and
\* runLearnCommand returns
SessionEnd ==
  \E e \in Events :
    /\ handlerOn
    /\ state.currentIndex >= Len(state.questions)
    /\ event' = e
    /\ handlerOn' = FALSE
    /\ pc' = "returned"
    /\ UNCHANGED <<state, graded, matcherCalls, loadedQuizzes, selectedIndex,
                   modeHandlerOn, menuHandlerOn, menuIndex, mode, screen,
                   call, outcome>>

\* handleKey while the result of the current question is shown
Acknowledge ==
  \E e \in Events :
    /\ handlerOn
    /\ state.currentIndex < Len(state.questions)
    /\ state.showingResult
    /\ event' = e
    /\ state' = handleKey(state, e)
    /\ graded' = gradedAfter(state, e)
    /\ screen' = IF state' = state THEN screen ELSE render(state')
    /\ UNCHANGED <<handlerOn, matcherCalls, pc, loadedQuizzes, selectedIndex,
                   modeHandlerOn, menuHandlerOn, menuIndex, mode,
                   call, outcome>>

\* handleKey on an unanswered multiple-choice question
MultipleChoiceKey ==
  \E e \in Events :
    /\ handlerOn
    /\ state.currentIndex < Len(state.questions)
    /\ ~state.showingResult
    /\ currentQuestionOf(state).mode = "multiple-choice"
    /\ event' = e
    /\ state' = handleKey(state, e)
    /\ graded' = gradedAfter(state, e)
    /\ screen' = IF state' = state THEN screen ELSE render(state')
    /\ UNCHANGED <<handlerOn, matcherCalls, pc, loadedQuizzes, selectedIndex,
                   modeHandlerOn, menuHandlerOn, menuIndex, mode,
                   call, outcome>>

\* handleKey on an unanswered type-answer question
TypeAnswerKey ==
  \E e \in Events :
    /\ handlerOn
    /\ state.currentIndex < Len(state.questions)
    /\ ~state.showingResult
    /\ currentQuestionOf(state).mode = "type-answer"
    /\ Len(handleKey(state, e).typedAnswer) <= MaxTyped
    /\ event' = e
    /\ state' = handleKey(state, e)
    /\ graded' = gradedAfter(state, e)
    /\ matcherCalls' = IF callsMatcher(state, e)
                          THEN matcherCalls + 1 ELSE matcherCalls
    /\ screen' = IF state' = state THEN screen ELSE render(state')
    /\ UNCHANGED <<handlerOn, pc, loadedQuizzes, selectedIndex,
                   modeHandlerOn, menuHandlerOn, menuIndex, mode,
                   call, outcome>>

Next == SessionEnd \/ Acknowledge \/ MultipleChoiceKey \/ TypeAnswerKey

Spec == Init /\ [][Next]_vars

(***************************************************************************)
(* runLearnCommand from its call: mode selection, then the session.        *)
(***************************************************************************)
KeyEscape == <<"e","s","c","a","p","e">>

\* the key presses of the mode selection
ModeSelectEvents ==
  {[name |-> n, ctrl |-> FALSE, meta |-> FALSE] :
     n \in {KeyUp, KeyDown, KeyReturn, KeyEnter, KeyEscape, <<"a">>}}

\* the quiz lists runLearnCommand is called with: none, or one quiz of one
\* card
LearnQuizzes == {<<>>, <<[cards |-> <<Card1>>]>>}

\* the box the render of selectLearnMode adds
renderModes(index) == [view |-> "select-mode", selectedIndex |-> index]

\* the box renderError adds
renderError(message) == [view |-> "error", message |-> message]

\* allCards: the cards of all quizzes, in order
RECURSIVE collectCards(_)
collectCards(quizzes) ==
  IF quizzes = <<>> THEN <<>>
  ELSE Head(quizzes).cards \o collectCards(Tail(quizzes))

\* runLearnCommand starting a session whatever the number of cards
runLearnCommand_NoEmptyCheck(quizzes, selectedMode, root) ==
  IF selectedMode = "null"
    THEN {[pc |-> "returned", state |-> NoState, handlerOn |-> FALSE,
           screen |-> root]}
  ELSE {[pc |-> "session", state |-> initialState(questions),
         handlerOn |-> TRUE, screen |-> render(initialState(questions))] :
          questions \in generateQuestions(collectCards(quizzes),
                                          selectedMode)}

\* runLearnCommand from the resolution of selectLearnMode to its return or
\* to the registration of handleKey: every outcome, root being the boxes
\* on the screen
runLearnCommand(quizzes, selectedMode, root) ==
  IF selectedMode = "null"
    THEN {[pc |-> "returned", state |-> NoState, handlerOn |-> FALSE,
           screen |-> root]}
  ELSE IF Len(collectCards(quizzes)) = 0
    THEN {[pc |-> "returned", state |-> NoState, handlerOn |-> FALSE,
           screen |-> Append(root,
                        renderError("No cards found in the selected quizzes."))]}
  ELSE {IF Len(questions) = 0
          THEN [pc |-> "returned", state |-> NoState, handlerOn |-> FALSE,
                screen |-> Append(root, renderError(
                  "No questions could be generated from these quizzes."))]
          ELSE [pc |-> "session", state |-> initialState(questions),
                handlerOn |-> TRUE,
                screen |-> render(initialState(questions))] :
          questions \in generateQuestions(collectCards(quizzes),
                                          selectedMode)}

LearnInit ==
  /\ loadedQuizzes \in LearnQuizzes
  /\ pc = "select-mode"
  /\ selectedIndex = 0
  /\ modeHandlerOn = TRUE
  /\ menuHandlerOn = FALSE
  /\ menuIndex = 0
  /\ mode = "pending"
  /\ screen = <<renderModes(0)>>
  /\ state = NoState
  /\ event = NoEvent
  /\ handlerOn = FALSE
  /\ graded = <<>>
  /\ matcherCalls = 0
  /\ call = NoCall
  /\ outcome = NoResult

\* handleKey of selectLearnMode
ModeSelectKey ==
  \E e \in ModeSelectEvents :
    LET key == toLowerCase(e.name)
    IN  /\ modeHandlerOn
        /\ event' = e
        /\ IF key = KeyUp \/ key = KeyDown
             THEN /\ selectedIndex' =
                       IF key = KeyUp
                         THEN (IF selectedIndex <= 0 THEN Len(Modes) - 1
                               ELSE selectedIndex - 1)
                         ELSE (IF selectedIndex >= Len(Modes) - 1 THEN 0
                               ELSE selectedIndex + 1)
                  /\ screen' = <<renderModes(selectedIndex')>>
                  /\ UNCHANGED <<modeHandlerOn, mode, pc>>
           ELSE IF key = KeyReturn \/ key = KeyEnter
             THEN /\ modeHandlerOn' = FALSE
                  /\ mode' = Modes[selectedIndex + 1]
                  /\ pc' = "mode-selected"
                  /\ UNCHANGED <<selectedIndex, screen>>
           ELSE IF key = KeyEscape
             THEN /\ modeHandlerOn' = FALSE
                  /\ mode' = "null"
                  /\ pc' = "mode-selected"
                  /\ UNCHANGED <<selectedIndex, screen>>
           ELSE UNCHANGED <<selectedIndex, screen, modeHandlerOn, mode, pc>>
        /\ UNCHANGED <<state, handlerOn, graded, matcherCalls, loadedQuizzes,
                       menuHandlerOn, menuIndex, call, outcome>>

\* runLearnCommand resumed with the selected mode
RunLearn ==
  /\ pc = "mode-selected"
  /\ \E o \in runLearnCommand(loadedQuizzes, mode, screen) :
       /\ pc' = o.pc
       /\ state' = o.state
       /\ handlerOn' = o.handlerOn
       /\ screen' = o.screen
       /\ graded' = [i \in 1..Len(o.state.questions) |-> 0]
  /\ UNCHANGED <<event, matcherCalls, loadedQuizzes, selectedIndex,
                 modeHandlerOn, menuHandlerOn, menuIndex, mode,
                 call, outcome>>

LearnNext ==
  \/ ModeSelectKey
  \/ RunLearn
  \/ SessionEnd
  \/ Acknowledge
  \/ MultipleChoiceKey
  \/ TypeAnswerKey

LearnSpec == LearnInit /\ [][LearnNext]_vars

\* ---------------------------------------------------------------------------
\* The quiz menu: showQuizMenu, the learn command it starts and its return.

\* the two quizzes the menu is shown for
MenuQuizzes == <<[cards |-> <<Card1>>], [cards |-> <<Card2>>]>>

\* the key presses of the menu
MenuEvents ==
  {[name |-> n, ctrl |-> FALSE, meta |-> FALSE] :
     n \in {KeyUp, KeyDown, KeyReturn, KeyEnter, <<"q">>, <<"Q">>, <<"a">>}}

\* options: "All Quizzes" when there is more than one quiz, then one option
\* per quiz
menuOptions(quizzes) ==
  (IF Len(quizzes) > 1
     THEN <<[id |-> "all",
             cardCount |-> Len(collectCards(quizzes)),
             quizzes |-> quizzes]>>
     ELSE <<>>)
  \o [i \in 1..Len(quizzes) |->
        [id |-> "quiz",
         cardCount |-> Len(quizzes[i].cards),
         quizzes |-> <<quizzes[i]>>]]

\* the box the render of showQuizMenu adds after clearing the screen
renderMenu(options, index) ==
  [view |-> "menu", selectedIndex |-> index,
   cardCounts |-> [i \in 1..Len(options) |-> options[i].cardCount]]

\* handleKey of showQuizMenu leaving itself registered while the learn
\* command runs
showQuizMenuKey_StaysRegistered(key, index, numOptions) ==
  IF key = KeyUp
    THEN [index |-> IF index <= 0 THEN numOptions - 1 ELSE index - 1,
          registered |-> TRUE, then |-> "render"]
  ELSE IF key = KeyDown
    THEN [index |-> IF index >= numOptions - 1 THEN 0 ELSE index + 1,
          registered |-> TRUE, then |-> "render"]
  ELSE IF key = KeyReturn \/ key = KeyEnter
    THEN [index |-> index, registered |-> TRUE, then |-> "learn"]
  ELSE IF key = <<"q">>
    THEN [index |-> index, registered |-> FALSE, then |-> "exit"]
  ELSE [index |-> index, registered |-> TRUE, then |-> "nothing"]

\* handleKey of showQuizMenu up to its await: the cursor, whether the handler
\* is still registered, and what the handler goes on to do
showQuizMenuKey(key, index, numOptions) ==
  IF key = KeyUp
    THEN [index |-> IF index <= 0 THEN numOptions - 1 ELSE index - 1,
          registered |-> TRUE, then |-> "render"]
  ELSE IF key = KeyDown
    THEN [index |-> IF index >= numOptions - 1 THEN 0 ELSE index + 1,
          registered |-> TRUE, then |-> "render"]
  ELSE IF key = KeyReturn \/ key = KeyEnter
    THEN [index |-> index, registered |-> FALSE, then |-> "learn"]
  ELSE IF key = <<"q">>
    THEN [index |-> index, registered |-> FALSE, then |-> "exit"]
  ELSE [index |-> index, registered |-> TRUE, then |-> "nothing"]

\* the random draws followed from the menu: both shuffles of generateQuestions
\* and the shuffle of the options leave the order as it was, and in mixed
\* mode the draws alternate between the two modes
DrawsKept(questions, cards) ==
  /\ InPushOrder(questions, cards)
  /\ \A i \in 1..Len(questions) :
       questions[i].mode = "multiple-choice"
         => questions[i].options[1].isCorrect
  /\ (\E i, j \in 1..Len(questions) : questions[i].mode # questions[j].mode)
       => \A i \in 1..Len(questions) :
            questions[i].mode = IF i % 2 = 1 THEN "multiple-choice"
                                ELSE "type-answer"

MenuInit ==
  /\ pc = "menu"
  /\ menuHandlerOn = TRUE
  /\ menuIndex = 0
  /\ screen = <<renderMenu(menuOptions(MenuQuizzes), 0)>>
  /\ loadedQuizzes = <<>>
  /\ selectedIndex = 0
  /\ modeHandlerOn = FALSE
  /\ mode = "pending"
  /\ state = NoState
  /\ event = NoEvent
  /\ handlerOn = FALSE
  /\ graded = <<>>
  /\ matcherCalls = 0
  /\ call = NoCall
  /\ outcome = NoResult

\* handleKey of showQuizMenu; on return it runs runLearnCommand up to the
\* registration of the handler of selectLearnMode
MenuKey ==
  \E e \in MenuEvents :
    LET options == menuOptions(MenuQuizzes)
        after == showQuizMenuKey(toLowerCase(e.name), menuIndex, Len(options))
    IN  /\ menuHandlerOn
        /\ event' = e
        /\ menuIndex' = after.index
        /\ menuHandlerOn' = after.registered
        /\ IF after.then = "learn"
             THEN /\ loadedQuizzes' = options[menuIndex + 1].quizzes
                  /\ pc' = "select-mode"
                  /\ selectedIndex' = 0
                  /\ modeHandlerOn' = TRUE
                  /\ mode' = "pending"
                  /\ screen' = <<renderModes(0)>>
           ELSE IF after.then = "exit"
             THEN /\ pc' = "exited"
                  /\ UNCHANGED <<loadedQuizzes, selectedIndex, modeHandlerOn,
                                 mode, screen>>
           ELSE /\ screen' = IF after.then = "render"
                               THEN <<renderMenu(options, menuIndex')>>
                               ELSE screen
                /\ UNCHANGED <<pc, loadedQuizzes, selectedIndex,
                               modeHandlerOn, mode>>
        /\ UNCHANGED <<state, handlerOn, graded, matcherCalls, call, outcome>>

\* runLearnCommand resumed with the selected mode, under the draws kept
MenuRunLearn ==
  /\ pc = "mode-selected"
  /\ \E o \in runLearnCommand(loadedQuizzes, mode, screen) :
       /\ o.pc = "session"
            => DrawsKept(o.state.questions, collectCards(loadedQuizzes))
       /\ pc' = o.pc
       /\ state' = o.state
       /\ handlerOn' = o.handlerOn
       /\ screen' = o.screen
       /\ graded' = [i \in 1..Len(o.state.questions) |-> 0]
  /\ UNCHANGED <<event, matcherCalls, loadedQuizzes, selectedIndex,
                 modeHandlerOn, menuHandlerOn, menuIndex, mode, call, outcome>>

\* handleKey of showQuizMenu resumed after runLearnCommand returned: the menu
\* is rendered again and the handler registered again; the objects of the
\* learn command are gone
MenuResume ==
  /\ pc = "returned"
  /\ pc' = "menu"
  /\ screen' = <<renderMenu(menuOptions(MenuQuizzes), menuIndex)>>
  /\ menuHandlerOn' = TRUE
  /\ state' = NoState
  /\ graded' = <<>>
  /\ matcherCalls' = 0
  /\ mode' = "pending"
  /\ selectedIndex' = 0
  /\ loadedQuizzes' = <<>>
  /\ UNCHANGED <<event, handlerOn, modeHandlerOn, menuIndex, call, outcome>>

MenuNext ==
  \/ MenuKey
  \/ ModeSelectKey
  \/ MenuRunLearn
  \/ SessionEnd
  \/ Acknowledge
  \/ MultipleChoiceKey
  \/ TypeAnswerKey
  \/ MenuResume

MenuSpec == MenuInit /\ [][MenuNext]_vars

(***************************************************************************)
(* Functions called on their own.  call holds the arguments, outcome what  *)
(* the call returned; the session is not running.                          *)
(***************************************************************************)
NoSession ==
  /\ state = NoState
  /\ event = NoEvent
  /\ handlerOn = FALSE
  /\ graded = <<>>
  /\ matcherCalls = 0
  /\ pc = "idle"
  /\ loadedQuizzes = <<>>
  /\ selectedIndex = 0
  /\ modeHandlerOn = FALSE
  /\ menuHandlerOn = FALSE
  /\ menuIndex = 0
  /\ mode = "null"
  /\ screen = <<>>

\* renderComplete on a state with the counters correct and incorrect
SummaryInit ==
  /\ NoSession
  /\ call \in {[fn |-> "renderComplete",
                 state |-> [correct |-> c, incorrect |-> i]] :
                c \in 0..MaxCount, i \in 0..MaxCount}
  /\ outcome = NoResult

RenderComplete ==
  /\ call.fn = "renderComplete"
  /\ ~outcome.ready
  /\ screen' = Append(screen, renderComplete(call.state))
  /\ outcome' = [ready |-> TRUE]
  /\ UNCHANGED <<sessionVars, pc, loadedQuizzes, selectedIndex,
                 modeHandlerOn, menuHandlerOn, menuIndex, mode, call>>

SummaryNext == RenderComplete

SummarySpec == SummaryInit /\ [][SummaryNext]_vars

\* the texts matchAnswer is called with
MatchTexts ==
  {<<"a">>, <<"A">>, <<AAcute>>, <<"a","b">>, <<"a"," ","b">>,
   <<"a"," "," ","b">>, <<" ","A","b">>, <<"b","b","b">>}

\* the lists of 1..n texts
RECURSIVE TextLists(_)
TextLists(n) ==
  IF n = 0 THEN {}
  ELSE {<<t>> : t \in MatchTexts}
         \cup TextLists(n - 1)
         \cup {Append(l, t) : l \in TextLists(n - 1), t \in MatchTexts}

MatchOptions ==
  [ignoreCase : BOOLEAN, ignoreAccents : BOOLEAN, allowTypoDistance : {0, 1}]

MatchInit ==
  /\ NoSession
  /\ call \in {[fn |-> "matchAnswer", userInput |-> u, correctAnswers |-> l,
                 options |-> o] :
                u \in MatchTexts, l \in TextLists(MaxAnswers),
                o \in MatchOptions}
  /\ outcome = NoResult

MatchAnswer ==
  /\ call.fn = "matchAnswer"
  /\ ~outcome.ready
  /\ outcome' = [ready |-> TRUE,
                 value |-> matchAnswer(call.userInput, call.correctAnswers,
                                       call.options)]
  /\ UNCHANGED <<sessionVars, learnVars, call>>

MatchNext == MatchAnswer

MatchSpec == MatchInit /\ [][MatchNext]_vars

\* the calls of the two question generators
GeneratorCalls ==
  {[fn |-> "generateQuestions", cards |-> c, mode |-> m] :
     c \in {<<>>, <<Card1>>, <<Card1, Card2>>}, m \in LearnModes}
  \cup {[fn |-> "generateQuestions", cards |-> <<Card1, Card2, Card3>>,
         mode |-> "type-answer"]}
  \cup {[fn |-> "generateMultipleChoiceQuestionsFromCards", cards |-> c,
         options |-> o] :
          c \in {<<>>, <<Card1>>, <<Card1, Card2>>},
          o \in [numOptions : {2, 4}, bidirectional : BOOLEAN,
                 shuffle : BOOLEAN]}
  \cup {[fn |-> "generateMultipleChoiceQuestionsFromCards",
         cards |-> <<Card1, Card2, Card3>>,
         options |-> [numOptions |-> n, bidirectional |-> FALSE,
                      shuffle |-> sh]] :
          n \in {2, 4}, sh \in BOOLEAN}

GenInit ==
  /\ NoSession
  /\ call \in GeneratorCalls
  /\ outcome = NoResult

GenerateQuestions ==
  /\ call.fn = "generateQuestions"
  /\ ~outcome.ready
  /\ \E questions \in generateQuestions(call.cards, call.mode) :
       outcome' = [ready |-> TRUE, value |-> questions]
  /\ UNCHANGED <<sessionVars, learnVars, call>>

GenerateMultipleChoiceQuestions ==
  /\ call.fn = "generateMultipleChoiceQuestionsFromCards"
  /\ ~outcome.ready
  /\ \E questions \in
         generateMultipleChoiceQuestionsFromCards(call.cards, call.options) :
       outcome' = [ready |-> TRUE, value |-> questions]
  /\ UNCHANGED <<sessionVars, learnVars, call>>

GenNext == GenerateQuestions \/ GenerateMultipleChoiceQuestions

GenSpec == GenInit /\ [][GenNext]_vars

\* the card lists single questions are made from
CreateDecks ==
  {<<Card1>>, <<Card1, Card2>>, <<Card1, Card4>>, <<Card1, Card2, Card3>>,
   <<Card1, Card2, Card3, Card4, Card5>>}

\* the calls making one question
CreateCalls ==
  UNION {{[fn |-> "createQuestion", card |-> deck[i], allCards |-> deck,
           direction |-> d, mode |-> m] :
            i \in 1..Len(deck), d \in {"front-to-back", "back-to-front"},
            m \in {"multiple-choice", "type-answer"}}
         \cup
         {[fn |-> "generateQuestion", targetCard |-> deck[i],
           allCards |-> deck, direction |-> d, numOptions |-> n] :
            i \in 1..Len(deck), d \in {"front-to-back", "back-to-front"},
            n \in {2, 4}} :
           deck \in CreateDecks}

CreateInit ==
  /\ NoSession
  /\ call \in CreateCalls
  /\ outcome = NoResult

CreateQuestion ==
  /\ call.fn = "createQuestion"
  /\ ~outcome.ready
  /\ \E question \in createQuestion(call.card, call.allCards,
                                     call.direction, call.mode) :
       outcome' = [ready |-> TRUE, value |-> question]
  /\ UNCHANGED <<sessionVars, learnVars, call>>

GenerateQuestion ==
  /\ call.fn = "generateQuestion"
  /\ ~outcome.ready
  /\ \E generated \in generateQuestion(call.targetCard, call.allCards,
                                        call.direction, call.numOptions) :
       outcome' = [ready |-> TRUE, value |-> generated]
  /\ UNCHANGED <<sessionVars, learnVars, call>>

CreateNext == CreateQuestion \/ GenerateQuestion

CreateSpec == CreateInit /\ [][CreateNext]_vars

\* the strings of at most n characters over a and b
RECURSIVE StringsUpTo(_)
StringsUpTo(n) ==
  IF n = 0 THEN {<<>>}
  ELSE StringsUpTo(n - 1)
         \cup {Append(t, c) : t \in StringsUpTo(n - 1), c \in {"a", "b"}}

LevInit ==
  /\ NoSession
  /\ call \in {[fn |-> "levenshteinDistance", a |-> a, b |-> b] :
                a \in StringsUpTo(MaxLen), b \in StringsUpTo(MaxLen)}
  /\ outcome = NoResult

LevenshteinDistance ==
  /\ call.fn = "levenshteinDistance"
  /\ ~outcome.ready
  /\ outcome' = [ready |-> TRUE,
                 value |-> levenshteinDistance(call.a, call.b)]
  /\ UNCHANGED <<sessionVars, learnVars, call>>

LevNext == LevenshteinDistance

LevSpec == LevInit /\ [][LevNext]_vars

\* ---------------------------------------------------------------------------
\* The session with a user who keeps answering and acknowledging.
\* The key presses come from the user; the session is studied under a user who
\* does not withhold for ever a key press that answers the question, one that
\* makes a blank buffer non-blank, one that shortens a full buffer, one that
\* acknowledges a result, or the last key press after completion.

\* a key press that selects or confirms an option
SelectStep ==
  /\ handlerOn
  /\ state.currentIndex < Len(state.questions)
  /\ ~state.showingResult
  /\ currentQuestionOf(state).mode = "multiple-choice"
  /\ \E e \in Events :
       /\ state' = handleKey(state, e)
       /\ state'.showingResult

\* return on a buffer that is not blank: the answer is graded, with either
\* verdict (the steps of the session have the verdict of matchAnswer)
SubmitStep ==
  /\ handlerOn
  /\ state.currentIndex < Len(state.questions)
  /\ ~state.showingResult
  /\ currentQuestionOf(state).mode = "type-answer"
  /\ callsMatcher(state, [name |-> KeyReturn, ctrl |-> FALSE, meta |-> FALSE])
  /\ \E isCorrect \in BOOLEAN :
       state' = [state EXCEPT
                   !.answered = TRUE,
                   !.lastAnswerCorrect = isCorrect,
                   !.correctAnswer = currentQuestionOf(state).correctAnswers[1],
                   !.correct = IF isCorrect THEN @ + 1 ELSE @,
                   !.incorrect = IF isCorrect THEN @ ELSE @ + 1,
                   !.showingResult = TRUE]

\* a key press that turns a blank buffer into one that can be submitted
NonBlankStep ==
  /\ handlerOn
  /\ state.currentIndex < Len(state.questions)
  /\ ~state.showingResult
  /\ currentQuestionOf(state).mode = "type-answer"
  /\ \A i \in 1..Len(state.typedAnswer) : state.typedAnswer[i] = " "
  /\ \E e \in Events :
       /\ state' = handleKey(state, e)
       /\ Len(state'.typedAnswer) <= MaxTyped
       /\ \E i \in 1..Len(state'.typedAnswer) : state'.typedAnswer[i] # " "

\* a backspace on a buffer that has reached the longest buffer explored
ShortenStep ==
  /\ handlerOn
  /\ state.currentIndex < Len(state.questions)
  /\ ~state.showingResult
  /\ currentQuestionOf(state).mode = "type-answer"
  /\ Len(state.typedAnswer) = MaxTyped
  /\ state' = handleKey(state, [name |-> KeyBackspace, ctrl |-> FALSE,
                              meta |-> FALSE])

\* a key press while a result is shown
AcknowledgeStep ==
  /\ handlerOn
  /\ state.currentIndex < Len(state.questions)
  /\ state.showingResult
  /\ \E e \in Events : state' = handleKey(state, e)

\* the key press after completion
LastKeyStep ==
  /\ handlerOn
  /\ state.currentIndex >= Len(state.questions)
  /\ handlerOn' = FALSE

FairSpec ==
  /\ Spec
  /\ WF_state(SelectStep)
  /\ SF_state(SubmitStep)
  /\ SF_state(NonBlankStep)
  /\ WF_state(ShortenStep)
  /\ WF_state(AcknowledgeStep)
  /\ WF_handlerOn(LastKeyStep)


TypeOK ==
  /\ state.currentIndex \in 0..Len(state.questions)
  /\ state.selectedOption \in -1..3
  /\ Len(state.typedAnswer) <= MaxTyped
  /\ handlerOn \in BOOLEAN

(***************************************************************************)
(* Vocabulary of the properties.                                           *)
(***************************************************************************)
NumQuestions == Len(state.questions)

AwaitingAnswer(st) ==
  st.currentIndex < Len(st.questions) /\ ~st.showingResult

ShowingResult(st) ==
  st.currentIndex < Len(st.questions) /\ st.showingResult

Complete(st) == st.currentIndex = Len(st.questions)

AwaitingMultipleChoice(st) ==
  AwaitingAnswer(st) /\ currentQuestionOf(st).mode = "multiple-choice"

AwaitingTypeAnswer(st) ==
  AwaitingAnswer(st) /\ currentQuestionOf(st).mode = "type-answer"

\* a key is identified by its name, letters in either case
KeyOf(e) == toLowerCase(e.name)

IsReturnKey(e) == KeyOf(e) \in {KeyReturn, KeyEnter}

\* the option index a digit 1-4 or a letter a-d stands for, -1 for any
\* other key
DirectIndex(e) ==
  LET k == KeyOf(e)
  IN  CASE k \in {<<"1">>, <<"a">>} -> 0
        [] k \in {<<"2">>, <<"b">>} -> 1
        [] k \in {<<"3">>, <<"c">>} -> 2
        [] k \in {<<"4">>, <<"d">>} -> 3
        [] OTHER -> -1

\* the keys a multiple-choice question reacts to
IsMultipleChoiceKey(e) ==
  DirectIndex(e) >= 0 \/ KeyOf(e) \in {KeyUp, KeyDown} \/ IsReturnKey(e)

\* a typed answer with nothing but blanks in it
IsBlank(s) == \A i \in 1..Len(s) : s[i] = " "

\* the session fields other than the question list
ScratchClean(st) ==
  /\ st.selectedOption = -1
  /\ st.typedAnswer = <<>>
  /\ ~st.answered
  /\ ~st.showingResult

PlainEvent(n) == [name |-> n, ctrl |-> FALSE, meta |-> FALSE]

(***************************************************************************)
(* C1.  In every reachable state correct + incorrect is the number of      *)
(* questions answered so far: currentIndex, plus one while the result of   *)
(* the current question is shown.  It never exceeds the number of          *)
(* questions and equals it once the session is complete.                   *)
(***************************************************************************)
C1_CountersCountAnswered ==
  /\ state.correct + state.incorrect =
       state.currentIndex + (IF state.showingResult THEN 1 ELSE 0)
  /\ state.correct + state.incorrect <= NumQuestions
  /\ Complete(state) => state.correct + state.incorrect = NumQuestions

C1_Witness ==
  /\ Complete(state)
  /\ NumQuestions = 4
  /\ state.correct = 2
  /\ state.incorrect = 2

(***************************************************************************)
(* C2.  Each finalizing key press (a digit 1-4 or letter a-d naming an     *)
(* existing option, or return/enter with an option selected, on a          *)
(* multiple-choice question; return/enter with a non-blank buffer on a     *)
(* type-answer question) adds exactly 1 to exactly one counter, to correct *)
(* iff the chosen option's isCorrect flag, resp. the matcher's isCorrect,  *)
(* is true; every other key press leaves both counters as they were.       *)
(***************************************************************************)
\* the option a finalizing key press on a multiple-choice question chooses
ChosenOption(st, e) ==
  IF DirectIndex(e) >= 0 THEN DirectIndex(e) ELSE st.selectedOption

FinalizesMultipleChoice(st, e) ==
  /\ AwaitingMultipleChoice(st)
  /\ \/ DirectIndex(e) \in 0..(Len(currentQuestionOf(st).options) - 1)
     \/ DirectIndex(e) < 0 /\ IsReturnKey(e) /\ st.selectedOption >= 0

FinalizesTypeAnswer(st, e) ==
  /\ AwaitingTypeAnswer(st)
  /\ IsReturnKey(e)
  /\ ~IsBlank(st.typedAnswer)

\* the flag a finalizing key press records
FinalFlag(st, e) ==
  IF FinalizesMultipleChoice(st, e)
    THEN currentQuestionOf(st).options[ChosenOption(st, e) + 1].isCorrect
    ELSE matchAnswer(st.typedAnswer, currentQuestionOf(st).correctAnswers,
                     [ignoreCase |-> TRUE, ignoreAccents |-> TRUE,
                      allowTypoDistance |-> 1]).isCorrect

CountersStep(st, e, after) ==
  IF FinalizesMultipleChoice(st, e) \/ FinalizesTypeAnswer(st, e)
    THEN IF FinalFlag(st, e)
           THEN after.correct = st.correct + 1
                /\ after.incorrect = st.incorrect
           ELSE after.correct = st.correct
                /\ after.incorrect = st.incorrect + 1
    ELSE after.correct = st.correct /\ after.incorrect = st.incorrect

C2_OnlyFinalizingKeysCount ==
  [][CountersStep(state, event', state')]_vars

(***************************************************************************)
(* C3.  currentIndex starts at 0 and changes only by +1, only by a key     *)
(* press while a result is shown; every question before the current one    *)
(* was graded exactly once, the current one once iff its result is shown,  *)
(* the later ones never; once the session is complete no key press changes *)
(* the session state.                                                      *)
(***************************************************************************)
GradedOnceInOrder ==
  \A i \in 1..NumQuestions :
    graded[i] = IF i - 1 < state.currentIndex THEN 1
                ELSE IF i - 1 = state.currentIndex /\ state.showingResult
                  THEN 1
                ELSE 0

IndexStep ==
  /\ state'.currentIndex \in {state.currentIndex, state.currentIndex + 1}
  /\ state'.currentIndex # state.currentIndex => ShowingResult(state)
  /\ Complete(state) => state' = state

C3_SessionOrder ==
  /\ state.currentIndex = 0
  /\ [][IndexStep]_vars
  /\ []GradedOnceInOrder

C3_Witness ==
  /\ Complete(state)
  /\ NumQuestions = 4
  /\ ~handlerOn
  /\ \A i \in 1..4 : graded[i] = 1

(***************************************************************************)
(* C4.  On an unanswered multiple-choice question a key other than 1-4,    *)
(* a-d, up, down, return and enter changes nothing of the session state.   *)
(***************************************************************************)
C4_OtherKeysIgnored ==
  [][(AwaitingMultipleChoice(state) /\ ~IsMultipleChoiceKey(event'))
       => state' = state /\ graded' = graded]_vars

(***************************************************************************)
(* C5.  Return/enter on an unanswered multiple-choice question with no     *)
(* option selected changes nothing of the session state.                   *)
(***************************************************************************)
C5_ConfirmWithoutSelection ==
  [][(AwaitingMultipleChoice(state) /\ IsReturnKey(event')
        /\ state.selectedOption = -1)
       => state' = state /\ graded' = graded]_vars

C5_Witness ==
  /\ AwaitingMultipleChoice(state)
  /\ state.currentIndex = 0
  /\ state.selectedOption = -1
  /\ event = PlainEvent(KeyReturn)
  /\ Len(currentQuestionOf(state).options) = 2

(***************************************************************************)
(* C6.  Return/enter on an unanswered type-answer question whose buffer is *)
(* empty or all blanks changes nothing of the session state and does not   *)
(* call the matcher.                                                       *)
(***************************************************************************)
C6_BlankSubmitRejected ==
  [][(AwaitingTypeAnswer(state) /\ IsReturnKey(event')
        /\ IsBlank(state.typedAnswer))
       => state' = state /\ graded' = graded
          /\ matcherCalls' = matcherCalls]_vars

C6_Witness ==
  /\ AwaitingTypeAnswer(state)
  /\ state.currentIndex = 0
  /\ state.typedAnswer = <<" ", " ">>
  /\ event = PlainEvent(KeyEnter)
  /\ matcherCalls = 0

(***************************************************************************)
(* C7.  While a result is shown, a key press that on an unanswered         *)
(* question would move the cursor, select or confirm an option, type,      *)
(* erase or submit has no effect on the session state.                     *)
(***************************************************************************)
\* the keys that mean something on an unanswered question
IsAnswerKey(e) ==
  \/ IsMultipleChoiceKey(e)
  \/ KeyOf(e) \in {KeyBackspace, KeySpace}
  \/ Len(e.name) = 1 /\ ~e.ctrl /\ ~e.meta

C7_AnswerKeysIgnoredInResult ==
  [][(ShowingResult(state) /\ IsAnswerKey(event')) => state' = state]_vars

(***************************************************************************)
(* C7, amended.  While a result is shown every such key press acts as the  *)
(* acknowledgement: it selects, types and grades nothing (both counters,   *)
(* lastAnswerCorrect and the grading of every question are unchanged) and  *)
(* advances currentIndex by one with no option selected and an empty       *)
(* buffer.                                                                 *)
(***************************************************************************)
C7_AnswerKeysAcknowledge ==
  [][(ShowingResult(state) /\ IsAnswerKey(event'))
       => /\ state'.correct = state.correct
          /\ state'.incorrect = state.incorrect
          /\ state'.lastAnswerCorrect = state.lastAnswerCorrect
          /\ graded' = graded
          /\ state'.currentIndex = state.currentIndex + 1
          /\ state'.selectedOption = -1
          /\ state'.typedAnswer = <<>>]_vars

C7_Witness ==
  /\ state.currentIndex = 1
  /\ AwaitingTypeAnswer(state)
  /\ ScratchClean(state)
  /\ event = PlainEvent(<<"2">>)
  /\ state.correct + state.incorrect = 1

(***************************************************************************)
(* C8.  Return/enter on a type-answer question with a non-blank buffer     *)
(* shows the result and grades the answer correct iff some accepted        *)
(* answer, both sides trimmed, whitespace-collapsed, lowercased and        *)
(* stripped of accents, equals the buffer or is one insertion, deletion or *)
(* substitution away from it, whatever the matchConfig of the card says.   *)
(***************************************************************************)
RemoveAt(s, i) == SubSeq(s, 1, i - 1) \o SubSeq(s, i + 1, Len(s))

\* s and t are equal or one single-character edit apart
WithinOneEdit(s, t) ==
  \/ s = t
  \/ Len(s) = Len(t)
     /\ \E i \in 1..Len(s) : \A j \in 1..Len(s) : j # i => s[j] = t[j]
  \/ Len(s) = Len(t) + 1 /\ \E i \in 1..Len(s) : RemoveAt(s, i) = t
  \/ Len(t) = Len(s) + 1 /\ \E i \in 1..Len(t) : RemoveAt(t, i) = s

\* the normalization in the order the property names its steps
Normalized(s) ==
  stripCombining(normalizeNFD(toLowerCase(collapseWhitespace(trim(s)))))

Accepted(typed, correctAnswers) ==
  \E k \in 1..Len(correctAnswers) :
    WithinOneEdit(Normalized(typed), Normalized(correctAnswers[k]))

C9_AcknowledgeClearsScratch ==
  [][/\ ShowingResult(state)
          => /\ state' = [state EXCEPT !.showingResult = FALSE,
                                       !.answered = FALSE,
                                       !.selectedOption = -1,
                                       !.typedAnswer = <<>>,
                                       !.currentIndex = @ + 1]
             /\ IF state.currentIndex + 1 = NumQuestions
                  THEN Complete(state')
                  ELSE AwaitingAnswer(state')
     /\ state'.currentIndex # state.currentIndex => ScratchClean(state')
    ]_vars

\* question 1 entered clean after a typed answer to question 0
C9_Witness ==
  /\ state.currentIndex = 1
  /\ AwaitingAnswer(state)
  /\ ScratchClean(state)
  /\ state.questions[1].mode = "type-answer"
  /\ event = PlainEvent(KeyTab)

(***************************************************************************)
(* C10.  On an unanswered multiple-choice question a digit 1-4 or letter   *)
(* a-d standing for option k gives, when k is an existing option, exactly  *)
(* the state reached by moving the cursor down to option k and pressing    *)
(* return (option k selected, result shown, the same counter incremented), *)
(* and changes nothing when k is not an existing option.                   *)
(***************************************************************************)
RECURSIVE moveCursorTo(_, _, _)
moveCursorTo(st, k, presses) ==
  IF st.selectedOption = k \/ presses = 0 THEN st
  ELSE moveCursorTo(handleKey(st, PlainEvent(KeyDown)), k, presses - 1)

selectThenConfirm(st, k) ==
  handleKey(moveCursorTo(st, k, Len(currentQuestionOf(st).options) + 1),
            PlainEvent(KeyReturn))

C10_DirectSelectionIsSelectConfirm ==
  [][(AwaitingMultipleChoice(state) /\ DirectIndex(event') >= 0)
       => LET k == DirectIndex(event')
          IN  IF k < Len(currentQuestionOf(state).options)
                THEN /\ state' = selectThenConfirm(state, k)
                     /\ state'.selectedOption = k
                     /\ ShowingResult(state')
                     /\ state'.correct + state'.incorrect
                          = state.correct + state.incorrect + 1
                ELSE state' = state
     ]_vars

\* option b chosen by its digit while the cursor was on option a
C10_Witness ==
  /\ ShowingResult(state)
  /\ state.currentIndex = 0
  /\ currentQuestionOf(state).mode = "multiple-choice"
  /\ state.selectedOption = 1
  /\ event = PlainEvent(<<"2">>)

(***************************************************************************)
(* C11.  The summary shows total = correct + incorrect and percentage =    *)
(* 100 * correct / total rounded to the nearest integer, halves up, when   *)
(* total > 0, and 0 when total = 0; the percentage is an integer in 0..100 *)
(* and is 100 iff total > 0 and incorrect = 0; with correct = 1 and        *)
(* incorrect = 0 it shows total 1 and percentage 100.                      *)
(***************************************************************************)
\* n / d rounded to the nearest integer, halves up
RoundHalfUp(n, d) == (2 * n + d) \div (2 * d)

C11_SummaryFigures ==
  (call.fn = "renderComplete" /\ outcome.ready)
    => LET shown == screen[Len(screen)]
           correct == call.state.correct
           incorrect == call.state.incorrect
           total == correct + incorrect
       IN  /\ shown.view = "complete"
           /\ shown.correct = correct
           /\ shown.incorrect = incorrect
           /\ shown.total = total
           /\ shown.percentage =
                IF total > 0 THEN RoundHalfUp(100 * correct, total) ELSE 0
           /\ shown.percentage \in 0..100
           /\ shown.percentage = 100 <=> (total > 0 /\ incorrect = 0)
           /\ (correct = 1 /\ incorrect = 0)
                => (shown.total = 1 /\ shown.percentage = 100)

(***************************************************************************)
(* C12.  Starting a session with no cards does not fail: once a mode is    *)
(* selected there is a session, it is complete, correct = 0 and            *)
(* incorrect = 0, and the screen is the summary with percentage 0.         *)
(***************************************************************************)
\* runLearnCommand went past the mode selection with a mode and no cards
StartedWithoutCards ==
  /\ pc \in {"session", "returned"}
  /\ mode \in LearnModes
  /\ collectCards(loadedQuizzes) = <<>>

C12_EmptySessionCompletes ==
  StartedWithoutCards
    => /\ state # NoState
       /\ Complete(state)
       /\ state.correct = 0
       /\ state.incorrect = 0
       /\ screen = <<[view |-> "complete", correct |-> 0, incorrect |-> 0,
                      total |-> 0, percentage |-> 0]>>

(***************************************************************************)
(* C12, amended.  Starting the learn command with no cards does not fail   *)
(* and starts no session: once a mode is selected the error "No cards      *)
(* found in the selected quizzes." is added to the screen and the command  *)
(* returns; no state object is built, no key handler is registered and no  *)
(* summary is shown.                                                       *)
(***************************************************************************)
C12_NoCardsShowsError ==
  StartedWithoutCards
    => /\ pc = "returned"
       /\ state = NoState
       /\ ~handlerOn
       /\ ~modeHandlerOn
       /\ screen[Len(screen)] =
            renderError("No cards found in the selected quizzes.")
       /\ \A i \in 1..Len(screen) : screen[i].view # "complete"

C12_Witness ==
  /\ StartedWithoutCards
  /\ loadedQuizzes = <<>>
  /\ mode = "type-answer"
  /\ KeyOf(event) = KeyReturn
  /\ Len(screen) = 2

(***************************************************************************)
(* C13.  If some accepted answer equals the input after the normalization  *)
(* matchAnswer applies, the result is isCorrect, isExact, distance 0 and   *)
(* matchedAnswer is the first such answer in list order, whatever the      *)
(* distance of the answers listed before it.                               *)
(***************************************************************************)
\* the normalization matchAnswer applies under the options o
AppliedNorm(text, o) ==
  IF o.ignoreCase THEN normalizeText(text, o.ignoreAccents) ELSE trim(text)

ExactAnswers ==
  {k \in 1..Len(call.correctAnswers) :
     AppliedNorm(call.correctAnswers[k], call.options)
       = AppliedNorm(call.userInput, call.options)}

Matched == call.fn = "matchAnswer" /\ outcome.ready

C13_ExactMatchPrecedence ==
  (Matched /\ ExactAnswers # {})
    => LET first == CHOOSE k \in ExactAnswers : \A j \in ExactAnswers : k <= j
       IN  outcome.value = [isCorrect |-> TRUE, isExact |-> TRUE,
                            distance |-> 0,
                            matchedAnswer |-> call.correctAnswers[first]]

\* the second answer is exact, the first within the tolerance
C13_Witness ==
  /\ Matched
  /\ call.userInput = <<"a","b">>
  /\ call.correctAnswers = << <<"a">>, <<" ","A","b">> >>
  /\ call.options = [ignoreCase |-> TRUE, ignoreAccents |-> FALSE,
                      allowTypoDistance |-> 1]
  /\ outcome.value.isExact
  /\ outcome.value.matchedAnswer = <<" ","A","b">>

(***************************************************************************)
(* C14.  Under every configuration the input and an accepted answer are    *)
(* an exact match exactly when they are equal after trimming, collapsing   *)
(* whitespace runs to one space, lowercasing iff ignoreCase and stripping  *)
(* diacritics iff ignoreAccents, each option acting on its own.            *)
(***************************************************************************)
StatedNorm(text, o) ==
  LET collapsed == collapseWhitespace(trim(text))
      cased == IF o.ignoreCase THEN toLowerCase(collapsed) ELSE collapsed
  IN  IF o.ignoreAccents THEN stripCombining(normalizeNFD(cased)) ELSE cased

C14_NormalizationPerOption ==
  Matched
    => (outcome.value.isExact
          <=> \E k \in 1..Len(call.correctAnswers) :
                StatedNorm(call.correctAnswers[k], call.options)
                  = StatedNorm(call.userInput, call.options))

(***************************************************************************)
(* C15.  When no accepted answer matches exactly, distance is the least    *)
(* edit distance between the normalized input and a normalized accepted    *)
(* answer, and isCorrect holds iff that distance is at most                *)
(* allowTypoDistance.                                                      *)
(***************************************************************************)
\* the least number of insertions, deletions and substitutions turning s
\* into t
RECURSIVE EditDistance(_, _)
EditDistance(s, t) ==
  IF s = <<>> THEN Len(t)
  ELSE IF t = <<>> THEN Len(s)
  ELSE IF Head(s) = Head(t) THEN EditDistance(Tail(s), Tail(t))
  ELSE 1 + Min3(EditDistance(Tail(s), t), EditDistance(s, Tail(t)),
                EditDistance(Tail(s), Tail(t)))

AnswerDistances ==
  {EditDistance(AppliedNorm(call.userInput, call.options),
                AppliedNorm(call.correctAnswers[k], call.options)) :
     k \in 1..Len(call.correctAnswers)}

C15_BestDistance ==
  (Matched /\ ExactAnswers = {})
    => LET least == CHOOSE d \in AnswerDistances :
                      \A x \in AnswerDistances : d <= x
       IN  /\ ~outcome.value.isExact
           /\ outcome.value.distance = least
           /\ outcome.value.isCorrect
                <=> least <= call.options.allowTypoDistance

\* the second answer is the nearer one, at the tolerance exactly
C15_Witness ==
  /\ Matched
  /\ call.userInput = <<"a","b">>
  /\ call.correctAnswers = << <<"b","b","b">>, <<"a">> >>
  /\ call.options.allowTypoDistance = 1
  /\ ~call.options.ignoreCase
  /\ outcome.value.isCorrect
  /\ outcome.value.distance = 1
  /\ outcome.value.matchedAnswer = <<"a">>

(***************************************************************************)
(* C16.  The generated list holds, for every input card, exactly one       *)
(* front-to-back question of that card and, when bidirectional, exactly    *)
(* one back-to-front question of it, and nothing else: 2N questions for N  *)
(* cards when bidirectional, N otherwise, none for no cards.               *)
(***************************************************************************)
Generated ==
  /\ call.fn \in {"generateQuestions",
                   "generateMultipleChoiceQuestionsFromCards"}
  /\ outcome.ready

\* generateQuestions of the learn command has no option: it always makes
\* both directions
Bidirectional ==
  call.fn = "generateQuestions" \/ call.options.bidirectional

QuestionsOf(card, direction) ==
  {k \in 1..Len(outcome.value) :
     /\ outcome.value[k].card = card
     /\ outcome.value[k].direction = direction}

C16_GeneratorCardinality ==
  Generated
    => LET N == Len(call.cards)
       IN  /\ Len(outcome.value) = IF Bidirectional THEN 2 * N ELSE N
           /\ \A i \in 1..N :
                /\ Cardinality(QuestionsOf(call.cards[i], "front-to-back"))
                     = 1
                /\ Cardinality(QuestionsOf(call.cards[i], "back-to-front"))
                     = IF Bidirectional THEN 1 ELSE 0
           /\ N = 0 => outcome.value = <<>>

\* three cards, one direction, shuffled so that the last card comes first
C16_Witness ==
  /\ Generated
  /\ call.fn = "generateMultipleChoiceQuestionsFromCards"
  /\ ~call.options.bidirectional
  /\ call.options.shuffle
  /\ Len(call.cards) = 3
  /\ Len(outcome.value) = 3
  /\ outcome.value[1].card = Card3
  /\ outcome.value[3].card = Card1

(***************************************************************************)
(* C17.  Every multiple-choice question made from a non-empty card list    *)
(* has between 2 and 4 options.                                            *)
(***************************************************************************)
\* a multiple-choice question was made
MadeMultipleChoice ==
  /\ outcome.ready
  /\ \/ call.fn = "generateQuestion"
     \/ call.fn = "createQuestion" /\ outcome.value.mode = "multiple-choice"

MadeOptions ==
  IF call.fn = "createQuestion" THEN outcome.value.options
  ELSE outcome.value.question.options

SourceCard ==
  IF call.fn = "createQuestion" THEN call.card ELSE call.targetCard

\* the text of a card asked for in the direction of the call
AnswerSide(card) ==
  IF call.direction = "front-to-back" THEN card.back.text
  ELSE card.front.text

C17_TwoToFourOptions ==
  MadeMultipleChoice => Len(MadeOptions) \in 2..4

(***************************************************************************)
(* C18.  Every multiple-choice question made has exactly one option marked *)
(* correct; its text is the answer side of the source card in the          *)
(* question's direction, which is also the first accepted answer.          *)
(***************************************************************************)
CorrectOptions == {i \in 1..Len(MadeOptions) : MadeOptions[i].isCorrect}

C18_OneCorrectOption ==
  MadeMultipleChoice
    => /\ Cardinality(CorrectOptions) = 1
       /\ \A i \in CorrectOptions :
            MadeOptions[i].text = AnswerSide(SourceCard)
       /\ call.fn = "createQuestion"
            => outcome.value.correctAnswers[1] = AnswerSide(SourceCard)
       /\ call.fn = "generateQuestion"
            => getCorrectOption(outcome.value.question).text
                 = AnswerSide(SourceCard)

\* a back-to-front question of four options, the correct one third
C18_Witness ==
  /\ MadeMultipleChoice
  /\ call.fn = "createQuestion"
  /\ call.direction = "back-to-front"
  /\ call.card = Card2
  /\ Len(MadeOptions) = 4
  /\ MadeOptions[3] = [text |-> <<"b","b">>, isCorrect |-> TRUE]

(***************************************************************************)
(* C19.  In every multiple-choice question made, the incorrect options     *)
(* carry the answer-side texts of distinct cards other than the source     *)
(* card, and none of them carries the text of the correct option.          *)
(***************************************************************************)
IncorrectOptions == {i \in 1..Len(MadeOptions) : ~MadeOptions[i].isCorrect}

OtherCards ==
  {k \in 1..Len(call.allCards) : call.allCards[k].id # SourceCard.id}

C19_DistractorsFromOtherCards ==
  MadeMultipleChoice
    => /\ \E f \in [IncorrectOptions -> OtherCards] :
            /\ \A i, j \in IncorrectOptions : i # j => f[i] # f[j]
            /\ \A i \in IncorrectOptions :
                 MadeOptions[i].text = AnswerSide(call.allCards[f[i]])
       /\ \A i \in IncorrectOptions :
            MadeOptions[i].text # AnswerSide(SourceCard)

(***************************************************************************)
(* C20.  On a multiple-choice question with L options selectedOption is    *)
(* -1 (none) or in 0..L-1.  Up and down on an unanswered multiple-choice   *)
(* question change only selectedOption: down moves to the next option and  *)
(* from the last one or from none to option 0, up moves to the previous    *)
(* option and from option 0 or from none to option L-1.                    *)
(***************************************************************************)
CursorInRange ==
  (state.currentIndex < NumQuestions
     /\ currentQuestionOf(state).mode = "multiple-choice")
    => LET L == Len(currentQuestionOf(state).options)
       IN  L >= 1 /\ state.selectedOption \in {-1} \cup 0..(L - 1)

CursorAfter(st, e) ==
  LET L == Len(currentQuestionOf(st).options)
      s == st.selectedOption
  IN  IF KeyOf(e) = KeyDown
        THEN (IF s = -1 \/ s = L - 1 THEN 0 ELSE s + 1)
        ELSE (IF s = -1 \/ s = 0 THEN L - 1 ELSE s - 1)

CursorStep ==
  (AwaitingMultipleChoice(state) /\ KeyOf(event') \in {KeyUp, KeyDown})
    => state' = [state EXCEPT !.selectedOption = CursorAfter(state, event')]

C20_CursorMovement == []CursorInRange /\ [][CursorStep]_vars

\* up pressed with the cursor on the first of two options
C20_Witness ==
  /\ AwaitingMultipleChoice(state)
  /\ Len(currentQuestionOf(state).options) = 2
  /\ state.currentIndex = 1
  /\ event = PlainEvent(KeyUp)
  /\ state.selectedOption = 1
  /\ state.correct = 1

(***************************************************************************)
(* C21.  On an unanswered type-answer question a one-character key         *)
(* pressed without ctrl and meta appends that character to typedAnswer,    *)
(* space appends one space, a one-character key pressed with ctrl or meta  *)
(* changes nothing, and backspace removes the last character (nothing of   *)
(* an empty typedAnswer); no other field of the session state changes.     *)
(***************************************************************************)
TypingStep ==
  AwaitingTypeAnswer(state)
    => LET e == event'
           typed == state.typedAnswer
       IN  IF KeyOf(e) = KeyBackspace
             THEN state' = [state EXCEPT !.typedAnswer =
                              SubSeq(typed, 1, Len(typed) - 1)]
           ELSE IF Len(e.name) = 1 /\ (e.ctrl \/ e.meta)
             THEN state' = state
           ELSE IF Len(e.name) = 1
             THEN state' = [state EXCEPT !.typedAnswer =
                              Append(typed, e.name[1])]
           ELSE IF KeyOf(e) = KeySpace
             THEN state' = [state EXCEPT !.typedAnswer = Append(typed, " ")]
           ELSE TRUE

C21_TypingEditsBufferOnly == [][TypingStep]_vars

\* an upper-case letter typed after a space
C21_Witness ==
  /\ AwaitingTypeAnswer(state)
  /\ state.typedAnswer = <<" ", "A">>
  /\ event = PlainEvent(<<"A">>)
  /\ state.currentIndex = 1

(***************************************************************************)
(* C22.  For every input and every non-empty list of accepted answers the  *)
(* result's distance is a non-negative integer, distance is 0 iff isExact, *)
(* and isExact implies isCorrect.                                          *)
(***************************************************************************)
C22_ResultShape ==
  Matched
    => /\ outcome.value.distance \in Nat
       /\ outcome.value.distance < Infinity
       /\ outcome.value.distance = 0 <=> outcome.value.isExact
       /\ outcome.value.isExact => outcome.value.isCorrect
       /\ outcome.value.isExact \in BOOLEAN
       /\ outcome.value.isCorrect \in BOOLEAN

\* an input accepted at distance 1, not exact
C22_Witness ==
  /\ Matched
  /\ call.userInput = <<"a"," ","b">>
  /\ call.correctAnswers = << <<"a","b">> >>
  /\ outcome.value.distance = 1
  /\ outcome.value.isCorrect
  /\ ~outcome.value.isExact

(***************************************************************************)
(* C23.  matchedAnswer is present iff isCorrect; when present it is one of *)
(* the accepted answers as listed, un-normalized, and the distance between *)
(* its normalized form and the normalized input is the reported distance;  *)
(* when the best distance exceeds the tolerance matchedAnswer is absent    *)
(* and the distance is still reported.                                     *)
(***************************************************************************)
C23_MatchedAnswer ==
  Matched
    => LET r == outcome.value
       IN  /\ r.matchedAnswer # Undefined <=> r.isCorrect
           /\ r.isCorrect
                => \E k \in 1..Len(call.correctAnswers) :
                     /\ r.matchedAnswer = call.correctAnswers[k]
                     /\ EditDistance(
                          AppliedNorm(call.userInput, call.options),
                          AppliedNorm(call.correctAnswers[k], call.options))
                          = r.distance
           /\ r.distance > call.options.allowTypoDistance
                => /\ r.matchedAnswer = Undefined
                   /\ r.distance \in AnswerDistances

\* the matched answer is returned with its capital and its blank
C23_Witness ==
  /\ Matched
  /\ call.userInput = <<"a","b">>
  /\ call.correctAnswers = << <<"b","b","b">>, <<" ","A","b">> >>
  /\ call.options.ignoreCase
  /\ outcome.value.matchedAnswer = <<" ","A","b">>
  /\ outcome.value.distance = 0

(***************************************************************************)
(* C29.  When no accepted answer matches exactly and the least distance is *)
(* within the tolerance, matchedAnswer is the first accepted answer in     *)
(* list order at that least distance.                                      *)
(***************************************************************************)
DistanceTo(k) ==
  EditDistance(AppliedNorm(call.userInput, call.options),
               AppliedNorm(call.correctAnswers[k], call.options))

\* the answers at the least distance
NearestAnswers ==
  {k \in 1..Len(call.correctAnswers) :
     \A j \in 1..Len(call.correctAnswers) : DistanceTo(k) <= DistanceTo(j)}

C29_EarliestOfTies ==
  (Matched /\ ExactAnswers = {} /\ outcome.value.isCorrect)
    => LET first == CHOOSE k \in NearestAnswers :
                      \A j \in NearestAnswers : k <= j
       IN  /\ outcome.value.matchedAnswer = call.correctAnswers[first]
           /\ outcome.value.distance = DistanceTo(first)

\* two answers at distance 1, the first one reported
C29_Witness ==
  /\ Matched
  /\ call.userInput = <<"a">>
  /\ call.correctAnswers = << <<"A">>, <<AAcute>> >>
  /\ call.options = [ignoreCase |-> FALSE, ignoreAccents |-> FALSE,
                      allowTypoDistance |-> 1]
  /\ outcome.value.matchedAnswer = <<"A">>
  /\ outcome.value.distance = 1

(***************************************************************************)
(* C24.  levenshteinDistance(a, b) is the unit-cost edit distance of a and *)
(* b: it is symmetric, 0 iff a = b, Len(a) against the empty string, and   *)
(* it satisfies the recurrence on the strings without their last           *)
(* characters.                                                             *)
(***************************************************************************)
Front(t) == SubSeq(t, 1, Len(t) - 1)

C24_ClassicalEditDistance ==
  (call.fn = "levenshteinDistance" /\ outcome.ready)
    => LET a == call.a
           b == call.b
           d == outcome.value
       IN  /\ d = EditDistance(a, b)
           /\ d = levenshteinDistance(b, a)
           /\ d = 0 <=> a = b
           /\ b = <<>> => d = Len(a)
           /\ a = <<>> => d = Len(b)
           /\ (a # <<>> /\ b # <<>>)
                => d = IF a[Len(a)] = b[Len(b)]
                         THEN levenshteinDistance(Front(a), Front(b))
                         ELSE 1 + Min3(
                                levenshteinDistance(Front(a), Front(b)),
                                levenshteinDistance(Front(a), b),
                                levenshteinDistance(a, Front(b)))

\* a deletion and a substitution
C24_Witness ==
  /\ call.fn = "levenshteinDistance"
  /\ outcome.ready
  /\ call.a = <<"a","b","b">>
  /\ call.b = <<"b","a">>
  /\ outcome.value = 2

(***************************************************************************)
(* C25.  The accepted answers of a question are the back text followed by  *)
(* the alternatives of the back, in order, for a front-to-back question,   *)
(* and the front text alone for a back-to-front question.                  *)
(***************************************************************************)
C25_AcceptedAnswers ==
  (call.fn = "createQuestion" /\ outcome.ready)
    => outcome.value.correctAnswers =
         IF call.direction = "front-to-back"
           THEN <<call.card.back.text>> \o call.card.back.alternatives
           ELSE <<call.card.front.text>>

\* the back of the card has an alternative, the question asks for the front
C25_Witness ==
  /\ call.fn = "createQuestion"
  /\ outcome.ready
  /\ call.card = Card1
  /\ call.direction = "back-to-front"
  /\ call.mode = "type-answer"
  /\ outcome.value.correctAnswers = << <<AAcute>> >>

\* C28: while the current question is multiple-choice the typed buffer is
\* empty, while it is type-answer selectedOption is -1, and a key handled in
\* one mode leaves the other mode's scratch field as it was.
ScratchSeparated ==
  (handlerOn /\ ~Complete(state)) =>
    /\ currentQuestionOf(state).mode = "multiple-choice"
         => state.typedAnswer = <<>>
    /\ currentQuestionOf(state).mode = "type-answer"
         => state.selectedOption = -1

ScratchStep ==
  /\ AwaitingMultipleChoice(state) => state'.typedAnswer = state.typedAnswer
  /\ AwaitingTypeAnswer(state) => state'.selectedOption = state.selectedOption

C28_ScratchFieldsSeparated == []ScratchSeparated /\ [][ScratchStep]_vars

C28_Witness ==
  /\ handlerOn
  /\ NumQuestions = 2
  /\ state.currentIndex = 1
  /\ state.questions[1].mode = "type-answer"
  /\ state.questions[2].mode = "multiple-choice"
  /\ state.showingResult
  /\ state.selectedOption = 0
  /\ state.typedAnswer = <<>>

\* C30: answered equals showingResult in every reachable session state,
\* showingResult holds only while currentIndex < N, and the step that grades a
\* question keeps the typed buffer; the option or the buffer that was graded is
\* in place, unchanged, for as long as the result is shown.
ResultFlags ==
  handlerOn =>
    /\ state.answered = state.showingResult
    /\ state.showingResult => state.currentIndex < NumQuestions
    /\ ShowingResult(state) =>
         IF currentQuestionOf(state).mode = "multiple-choice"
           THEN /\ state.selectedOption \in
                     0..(Len(currentQuestionOf(state).options) - 1)
                /\ state.lastAnswerCorrect =
                     currentQuestionOf(state)
                       .options[state.selectedOption + 1].isCorrect
           ELSE ~IsBlank(state.typedAnswer)

GradingStep ==
  /\ (AwaitingTypeAnswer(state) /\ state'.showingResult)
       => state'.typedAnswer = state.typedAnswer
  /\ (ShowingResult(state) /\ state'.showingResult) => state' = state

C30_AnsweredIffShowingResult == []ResultFlags /\ [][GradingStep]_vars

C30_Witness ==
  /\ handlerOn
  /\ ShowingResult(state)
  /\ currentQuestionOf(state).mode = "type-answer"
  /\ state.answered
  /\ state.typedAnswer = <<"a", "b">>
  /\ state.currentIndex = NumQuestions - 1

\* C26: in every reachable state before completion some key press changes the
\* state: a multiple-choice question can be answered by one key, a type-answer
\* question by backspace, a letter and return, a result can be acknowledged;
\* with a user who keeps answering and acknowledging the session ends for
\* good in Complete with N gradings, one per question, and N
\* acknowledgements, and the key press after completion removes the handler.
Submitted(st) ==
  handleKey(handleKey(handleKey(st, PlainEvent(KeyBackspace)),
                      PlainEvent(<<"a">>)),
            PlainEvent(KeyReturn))

CanProgress ==
  (handlerOn /\ ~Complete(state)) =>
    /\ \E e \in Events : handleKey(state, e) # state
    /\ AwaitingMultipleChoice(state)
         => \E e \in Events : ShowingResult(handleKey(state, e))
    /\ AwaitingTypeAnswer(state)
         => /\ ShowingResult(Submitted(state))
            /\ ~IsBlank(Submitted(state).typedAnswer)
    /\ ShowingResult(state)
         => \E e \in Events :
               handleKey(state, e).currentIndex = state.currentIndex + 1

Ended ==
  /\ ~handlerOn
  /\ Complete(state)
  /\ state.currentIndex = NumQuestions
  /\ state.correct + state.incorrect = NumQuestions
  /\ \A i \in 1..NumQuestions : graded[i] = 1

EndStep ==
  (handlerOn /\ Complete(state)) => (~handlerOn' /\ state' = state)

C26_SessionTerminates == []CanProgress /\ <>[]Ended /\ [][EndStep]_vars

C26_Witness ==
  /\ ~handlerOn
  /\ Complete(state)
  /\ NumQuestions = 2
  /\ state.questions[1].mode = "multiple-choice"
  /\ state.questions[2].mode = "type-answer"
  /\ state.correct = 1
  /\ state.incorrect = 1
  /\ graded = <<1, 1>>

\* C27: at most one of the handlers of the quiz menu, the mode selection and
\* the session is registered, and wherever a key press can arrive exactly
\* one is, the one of the screen shown; the menu handler is off from the start
\* of the learn command and is registered again only once it has returned;
\* the session handler is registered only after the mode handler was removed;
\* no step outside the menu moves the menu selection.
Registered ==
  (IF menuHandlerOn THEN {"menu"} ELSE {})
  \cup (IF modeHandlerOn THEN {"select-mode"} ELSE {})
  \cup (IF handlerOn THEN {"session"} ELSE {})

OneHandler ==
  /\ Cardinality(Registered) <= 1
  /\ pc \in {"menu", "select-mode", "session"} => Registered = {pc}
  /\ pc \in {"mode-selected", "returned", "exited"} => Registered = {}

HandlerStep ==
  /\ (~menuHandlerOn /\ menuHandlerOn') => (pc = "returned" /\ pc' = "menu")
  /\ (menuHandlerOn /\ pc' = "select-mode") => ~menuHandlerOn'
  /\ (~handlerOn /\ handlerOn') => (~modeHandlerOn /\ pc = "mode-selected")
  /\ pc # "menu" => menuIndex' = menuIndex
  /\ pc # "select-mode" => selectedIndex' \in {selectedIndex, 0}
  /\ pc # "session" => state' \in {state, NoState} \/ state = NoState

C27_OneKeyHandler == []OneHandler /\ [][HandlerStep]_vars

C27_Witness ==
  /\ pc = "session"
  /\ Registered = {"session"}
  /\ menuIndex = 1
  /\ KeyOf(event) = KeyUp
  /\ state.currentIndex = 1
  /\ state.selectedOption = 0
  /\ ~state.showingResult

====
